---- MODULE Spec2Model ----
(***************************************************************************)
(* KBank (K PLUS) transaction identifier parser, validator and fake-slip   *)
(* risk scorer (src/src/utils/transactionParser.js) together with the      *)
(* ValidationService wrappers that consume them.                           *)
(*                                                                         *)
(* Strings are sequences of one-character strings, so that trimming,       *)
(* whitespace removal, upper-casing, prefix tests, lengths and the regular *)
(* expressions are computed character by character.                        *)
(***************************************************************************)
EXTENDS Integers, Sequences, FiniteSets, TLC

VARIABLES
    transactionId,      \* the value handed to the parser: [isString, chars]
    currentYear,        \* new Date().getFullYear() + 543 (Buddhist era)
    pc,                 \* position of the driver / of detectFakeSlip
    parsed,             \* result of parse(transactionId)
    validation,         \* result of isValid(transactionId)
    riskLevel,          \* detectFakeSlip: running risk level
    suspiciousReasons,  \* detectFakeSlip: reasons pushed so far
    detection,          \* result of detectFakeSlip(transactionId)
    quick,              \* result of quickValidate(transactionId)
    combined,           \* result of validateAndDetectFake(transactionId)
    ocrDateTime,        \* the date/time text read from the slip: [isString, chars]
    verification,       \* result of verifyDateTime(transactionId, ocrDateTime)
    slipData,           \* the extraction result handed to validateSlip
    expectedData,       \* the caller's expected amount and recipient
    result,             \* result of validateSlip(slipData, expectedData)
    ocrText,            \* the raw OCR text handed to extractTransactionId
    extraction,         \* extractTransactionId: candidates, best match, result
    worker,             \* OCRService: this.worker, a Tesseract worker or null
    isInitialized,      \* OCRService: this.isInitialized
    workers,            \* the Tesseract workers created so far, each with its state
    calls,              \* the extractText calls: where each stands, what it created
    terminator          \* the terminate call in flight, if any

\* the variables of the cross-verifier and of the orchestrator
slipVars == <<ocrDateTime, verification, slipData, expectedData, result>>

\* the variables of the extractor
ocrVars == <<ocrText, extraction>>

\* the variables of the OCR service and of the calls on it
workerVars == <<worker, isInitialized, workers, calls, terminator>>

\* the variables of the parser, validator and scorer driver
parserVars == <<parsed, validation, riskLevel, suspiciousReasons, detection,
                quick, combined>>

\* everything but the OCR service: what the calls on the service leave alone
callerVars == <<transactionId, currentYear, pc, parserVars, slipVars, ocrVars>>

vars == <<transactionId, currentYear, pc, parsed, validation, riskLevel,
          suspiciousReasons, detection, quick, combined, ocrDateTime,
          verification, slipData, expectedData, result, ocrText, extraction,
          worker, isInitialized, workers, calls, terminator>>

---------------------------------------------------------------------------
(* The OCR service object as its constructor leaves it.                    *)

\* the number of extractText calls made on the service
MaxCalls == 3

Calls == 1..MaxCalls

\* this.worker = null
NoWorker == 0

\* constructor: no worker, not initialised; nothing has been called yet
Constructed ==
    /\ worker = NoWorker
    /\ isInitialized = FALSE
    /\ workers = <<>>
    /\ calls = [c \in Calls |-> [pc |-> "idle", created |-> NoWorker]]
    /\ terminator = [pc |-> "idle", worker |-> NoWorker]

---------------------------------------------------------------------------
(* Characters and the JavaScript string primitives the parser uses.        *)

Digits == <<"0", "1", "2", "3", "4", "5", "6", "7", "8", "9">>

UpperLetters == <<"A", "B", "C", "D", "E", "F", "G", "H", "I", "J", "K", "L", "M",
                  "N", "O", "P", "Q", "R", "S", "T", "U", "V", "W", "X", "Y", "Z">>

LowerLetters == <<"a", "b", "c", "d", "e", "f", "g", "h", "i", "j", "k", "l", "m",
                  "n", "o", "p", "q", "r", "s", "t", "u", "v", "w", "x", "y", "z">>

\* the regex class \d
IsDigit(c) == \E i \in 1..Len(Digits) : Digits[i] = c

\* the regex class [A-Z0-9]
IsUpperAlnum(c) == IsDigit(c) \/ \E i \in 1..Len(UpperLetters) : UpperLetters[i] = c

\* the regex class \s (the members that occur in the inputs)
IsSpace(c) == c \in {" ", "\t", "\n"}

DigitVal(c) == CHOOSE i \in 0..9 : Digits[i + 1] = c

\* parseInt(s, 10) on a string of decimal digits
RECURSIVE parseInt(_)
parseInt(s) ==
    IF s = <<>> THEN 0
    ELSE 10 * parseInt(SubSeq(s, 1, Len(s) - 1)) + DigitVal(s[Len(s)])

\* String(n) / template interpolation of a non-negative integer
RECURSIVE ToDecimal(_)
ToDecimal(n) ==
    IF n < 10 THEN <<Digits[n + 1]>>
    ELSE ToDecimal(n \div 10) \o <<Digits[(n % 10) + 1]>>

\* String.prototype.trim
RECURSIVE TrimLeft(_)
TrimLeft(s) ==
    IF s # <<>> /\ IsSpace(Head(s)) THEN TrimLeft(Tail(s)) ELSE s

RECURSIVE TrimRight(_)
TrimRight(s) ==
    IF s # <<>> /\ IsSpace(s[Len(s)]) THEN TrimRight(SubSeq(s, 1, Len(s) - 1)) ELSE s

Trim(s) == TrimRight(TrimLeft(s))

\* .replace(/\s/g, '')
RemoveWhitespace(s) == SelectSeq(s, LAMBDA c : ~IsSpace(c))

UpperChar(c) ==
    IF \E i \in 1..Len(LowerLetters) : LowerLetters[i] = c
    THEN UpperLetters[CHOOSE i \in 1..Len(LowerLetters) : LowerLetters[i] = c]
    ELSE c

\* String.prototype.toUpperCase
ToUpperCase(s) == [i \in 1..Len(s) |-> UpperChar(s[i])]

\* String.prototype.startsWith
StartsWith(s, p) == Len(s) >= Len(p) /\ SubSeq(s, 1, Len(p)) = p

\* String.prototype.substring(0, n)
Substring0(s, n) == SubSeq(s, 1, IF Len(s) < n THEN Len(s) ELSE n)

AllDigits(s) == \A i \in 1..Len(s) : IsDigit(s[i])

AllUpperAlnum(s) == \A i \in 1..Len(s) : IsUpperAlnum(s[i])

---------------------------------------------------------------------------
(* TransactionParser: constructor                                          *)

KBANK_PREFIX == <<"0", "1", "5", "2">>

MIN_LENGTH == 20

MAX_LENGTH == 21

\* /^0152\d{8}[A-Z0-9]{4}\d{3,5}$/
STRICT_PATTERN(s) ==
    /\ Len(s) >= 19
    /\ Len(s) <= 21
    /\ SubSeq(s, 1, 4) = <<"0", "1", "5", "2">>
    /\ AllDigits(SubSeq(s, 5, 12))
    /\ AllUpperAlnum(SubSeq(s, 13, 16))
    /\ AllDigits(SubSeq(s, 17, Len(s)))

UnknownTypeDescription == "Unknown Transaction Type"

\* this.transactionTypes: type code -> description
transactionTypes ==
    { <<<<"B", "P", "M", "O">>, "Bill Payment Mobile Online">>,
      <<<<"B", "Q", "R", "0">>, "Bill QR Payment">>,
      <<<<"B", "Q", "R">>,      "Bill QR Payment">>,
      <<<<"B", "P", "A", "Y">>, "Bill Payment">>,
      <<<<"A", "T", "F", "0">>, "Account Transfer via Mobile">>,
      <<<<"A", "T", "F">>,      "Account Transfer">>,
      <<<<"A", "T", "M", "O">>, "Account Transfer Mobile Online">>,
      <<<<"A", "T", "M", "B">>, "ATM Transfer">>,
      <<<<"A", "P", "M", "0">>, "App Payment">>,
      <<<<"A", "P", "M">>,      "App Payment">>,
      <<<<"A", "P", "A", "Y">>, "App Payment">>,
      <<<<"Q", "R", "P", "0">>, "QR Payment">>,
      <<<<"Q", "R", "P", "M">>, "QR PromptPay">>,
      <<<<"T", "F", "M", "O">>, "Transfer Mobile">> }

\* this.transactionTypes.hasOwnProperty(type)
HasType(type) == \E e \in transactionTypes : e[1] = type

\* this.transactionTypes[type] || 'Unknown Transaction Type'
TypeDescription(type) ==
    IF HasType(type)
    THEN (CHOOSE e \in transactionTypes : e[1] = type)[2]
    ELSE UnknownTypeDescription

---------------------------------------------------------------------------
(* TransactionParser.parse                                                 *)

\* JavaScript null / undefined / an absent property
NULL == [valid |-> FALSE]

\* !transactionId || typeof transactionId !== 'string'
NotAString(id) == ~id.isString \/ id.chars = <<>>

\* transactionId.trim().replace(/\s/g, '').toUpperCase()
Clean(chars) == ToUpperCase(RemoveWhitespace(Trim(chars)))

\* mutant: parse lets a 19-character identifier (3-digit sequence) through
parseLengthInvalid_From19(cleanId) ==
    Len(cleanId) < MIN_LENGTH - 1 \/ Len(cleanId) > MAX_LENGTH

\* mutant: parse checks the maximum length only
parseLengthInvalid_MaxOnly(cleanId) == Len(cleanId) > MAX_LENGTH

\* cleanId.length < this.MIN_LENGTH || cleanId.length > this.MAX_LENGTH  (in parse)
parseLengthInvalid(cleanId) == Len(cleanId) < MIN_LENGTH \/ Len(cleanId) > MAX_LENGTH

\* cleanId.match(/^0152(\d{2})(\d{2})(\d{2})(\d{2})([A-Z0-9]{4})(\d{3,5})$/)
PatternMatch(s) ==
    IF /\ Len(s) \in 19..21
       /\ SubSeq(s, 1, 4) = <<"0", "1", "5", "2">>
       /\ AllDigits(SubSeq(s, 5, 6))
       /\ AllDigits(SubSeq(s, 7, 8))
       /\ AllDigits(SubSeq(s, 9, 10))
       /\ AllDigits(SubSeq(s, 11, 12))
       /\ AllUpperAlnum(SubSeq(s, 13, 16))
       /\ AllDigits(SubSeq(s, 17, Len(s)))
    THEN [matched |-> TRUE,
          yy |-> SubSeq(s, 5, 6), hh |-> SubSeq(s, 7, 8), mm |-> SubSeq(s, 9, 10),
          ss |-> SubSeq(s, 11, 12), type |-> SubSeq(s, 13, 16),
          seq |-> SubSeq(s, 17, Len(s))]
    ELSE [matched |-> FALSE]

\* mutant: the time bounds are off by one
TimeInvalid_OffByOne(hour, minute, second) == hour > 24 \/ minute > 60 \/ second > 60

\* hour > 23 || minute > 59 || second > 59
TimeInvalid(hour, minute, second) == hour > 23 \/ minute > 59 \/ second > 59

\* mutant: the base year is off by one
YearOf_Base2469(yy) == 2469 + parseInt(yy)

\* 2470 + parseInt(yy, 10)
YearOf(yy) == 2470 + parseInt(yy)

\* mutant: next year's identifiers are refused
YearOutOfRange_NoNextYear(year, cy) == year < cy - 5 \/ year > cy

\* mutant: the upper end of the year window is not checked
YearOutOfRange_PastOnly(year, cy) == year < cy - 5

\* year < currentYear - 5 || year > currentYear + 1
YearOutOfRange(year, cy) == year < cy - 5 \/ year > cy + 1

buildTimestamp(year, hh, mm, ss) ==
    [year |-> year, hour |-> parseInt(hh), minute |-> parseInt(mm), second |-> parseInt(ss)]

parse(id, cy) ==
    IF NotAString(id) THEN NULL
    ELSE LET cleanId == Clean(id.chars) IN
      IF ~StartsWith(cleanId, KBANK_PREFIX) THEN NULL
      ELSE IF parseLengthInvalid(cleanId) THEN NULL
      ELSE IF ~STRICT_PATTERN(cleanId) THEN NULL
      ELSE LET match == PatternMatch(cleanId) IN
        IF ~match.matched THEN NULL
        ELSE LET hour   == parseInt(match.hh)
                 minute == parseInt(match.mm)
                 second == parseInt(match.ss)
                 year   == YearOf(match.yy)
             IN
          IF TimeInvalid(hour, minute, second) THEN NULL
          ELSE IF YearOutOfRange(year, cy) THEN NULL
          ELSE [ raw             |-> cleanId,
                 valid           |-> TRUE,
                 prefix          |-> KBANK_PREFIX,
                 year            |-> year,
                 yearCode        |-> match.yy,
                 time            |-> match.hh \o <<":">> \o match.mm \o <<":">> \o match.ss,
                 hour            |-> hour,
                 minute          |-> minute,
                 second          |-> second,
                 type            |-> match.type,
                 typeDescription |-> TypeDescription(match.type),
                 isKnownType     |-> HasType(match.type),
                 sequence        |-> match.seq,
                 length          |-> Len(cleanId),
                 timestamp       |-> buildTimestamp(year, match.hh, match.mm, match.ss),
                 validPrefix     |-> TRUE,
                 validLength     |-> TRUE,
                 validPattern    |-> TRUE,
                 validTime       |-> TRUE,
                 validYear       |-> TRUE ]

---------------------------------------------------------------------------
(* TransactionParser.isValid                                               *)

\* A message is its template text plus the values interpolated into it, as
\* characters; several values are separated by "|".
Msg(text, arg) == [text |-> text, arg |-> arg]

ReasonRequired == "Transaction ID is required and must be a string"
ReasonPrefix   == "Invalid prefix. Expected \"0152\" (KBank K PLUS), got \"${cleanId.substring(0, 4)}\""
ReasonLength   == "Invalid length. Expected 20-21 characters, got ${cleanId.length}"
ReasonPattern  == "Invalid format. Expected pattern: 0152 + 8 digits + 4 letters + 3-5 digits"
ReasonParse    == "Failed to parse transaction ID. May contain invalid time or year values"
ReasonValid    == "Valid KBank K PLUS transaction ID"

\* mutant: isValid does not check the length
isValidLengthInvalid_Skipped(cleanId) == FALSE

\* cleanId.length < this.MIN_LENGTH || cleanId.length > this.MAX_LENGTH  (in isValid)
isValidLengthInvalid(cleanId) == Len(cleanId) < MIN_LENGTH \/ Len(cleanId) > MAX_LENGTH

isValid(id, cy) ==
    IF NotAString(id)
    THEN [valid |-> FALSE, reason |-> Msg(ReasonRequired, <<>>), parsed |-> NULL]
    ELSE LET cleanId == Clean(id.chars) IN
      IF ~StartsWith(cleanId, KBANK_PREFIX)
      THEN [valid |-> FALSE, reason |-> Msg(ReasonPrefix, Substring0(cleanId, 4)),
            parsed |-> NULL]
      ELSE IF isValidLengthInvalid(cleanId)
      THEN [valid |-> FALSE, reason |-> Msg(ReasonLength, ToDecimal(Len(cleanId))),
            parsed |-> NULL]
      ELSE IF ~STRICT_PATTERN(cleanId)
      THEN [valid |-> FALSE, reason |-> Msg(ReasonPattern, <<>>), parsed |-> NULL]
      ELSE LET p == parse([isString |-> TRUE, chars |-> cleanId], cy) IN
        IF ~p.valid
        THEN [valid |-> FALSE, reason |-> Msg(ReasonParse, <<>>), parsed |-> NULL]
        ELSE [valid |-> TRUE, reason |-> Msg(ReasonValid, <<>>), parsed |-> p]

\* isValidQuick
isValidQuick(id, cy) == isValid(id, cy).valid = TRUE

---------------------------------------------------------------------------
(* TransactionParser.detectFakeSlip                                        *)

RecommendInvalid == "Reject - Invalid transaction ID format"
RecommendHigh    == "Reject - Multiple suspicious indicators"
RecommendMedium  == "Review - Some suspicious indicators detected"
RecommendLow     == "Accept - No major concerns"

ReasonUnknownType == "Unknown transaction type code: ${parsed.type}"
ReasonRepetitive  == "Sequential number is repetitive (e.g., 1111, 2222)"
ReasonOlder       == "Transaction year ${parsed.year} is older than expected"
ReasonFuture      == "Transaction year ${parsed.year} is in the future"
ReasonMidnight    == "Transaction time is exactly 00:00:00 (unusual)"

\* mutant: a rejected identifier is reported as MEDIUM risk
InvalidDetection_Medium(v) ==
    [ isSuspicious   |-> TRUE,
      riskLevel      |-> "MEDIUM",
      reasons        |-> <<v.reason>>,
      recommendation |-> RecommendInvalid,
      parsed         |-> NULL ]

\* the early return for an identifier isValid rejects
InvalidDetection(v) ==
    [ isSuspicious   |-> TRUE,
      riskLevel      |-> "HIGH",
      reasons        |-> <<v.reason>>,
      recommendation |-> RecommendInvalid,
      parsed         |-> NULL ]

\* let riskLevel = 'LOW'; const suspiciousReasons = []
InitialAssessment == [riskLevel |-> "LOW", reasons |-> <<>>]

\* Check 1: unknown transaction type
Check1(p, st) ==
    IF ~p.isKnownType
    THEN [riskLevel |-> "MEDIUM",
          reasons   |-> Append(st.reasons, Msg(ReasonUnknownType, p.type))]
    ELSE st

\* /^(\d)\1+$/.test(seq)
IsRepetitive(seq) ==
    /\ Len(seq) >= 2
    /\ IsDigit(seq[1])
    /\ \A i \in 2..Len(seq) : seq[i] = seq[1]

\* Check 2: repetitive sequence number
Check2(p, st) ==
    IF IsRepetitive(p.sequence)
    THEN [riskLevel |-> "MEDIUM",
          reasons   |-> Append(st.reasons, Msg(ReasonRepetitive, <<>>))]
    ELSE st

\* Check 3: year too old or in the future
Check3(p, cy, st) ==
    IF p.year < cy - 2
    THEN [riskLevel |-> "MEDIUM",
          reasons   |-> Append(st.reasons, Msg(ReasonOlder, ToDecimal(p.year)))]
    ELSE IF p.year > cy + 1
    THEN [riskLevel |-> "HIGH",
          reasons   |-> Append(st.reasons, Msg(ReasonFuture, ToDecimal(p.year)))]
    ELSE st

\* Check 4: time exactly 00:00:00
Check4(p, st) ==
    IF p.hour = 0 /\ p.minute = 0 /\ p.second = 0
    THEN [riskLevel |-> "MEDIUM",
          reasons   |-> Append(st.reasons, Msg(ReasonMidnight, <<>>))]
    ELSE st

\* mutant: HIGH only from four reasons on
Overall_MoreThanThree(st) ==
    IF Len(st.reasons) > 3 THEN [st EXCEPT !.riskLevel = "HIGH"] ELSE st

\* Overall assessment: suspiciousReasons.length > 2
Overall(st) ==
    IF Len(st.reasons) > 2 THEN [st EXCEPT !.riskLevel = "HIGH"] ELSE st

\* mutant: MEDIUM is recommended for acceptance
Recommendation_MediumAccepted(level) ==
    IF level = "HIGH" THEN RecommendHigh ELSE RecommendLow

\* the recommendation of the scored path
Recommendation(level) ==
    IF level = "HIGH" THEN RecommendHigh
    ELSE IF level = "MEDIUM" THEN RecommendMedium
    ELSE RecommendLow

\* the object returned on the scored path
Assessment(p, st) ==
    [ isSuspicious   |-> Len(st.reasons) > 0,
      riskLevel      |-> st.riskLevel,
      reasons        |-> st.reasons,
      recommendation |-> Recommendation(st.riskLevel),
      parsed         |-> p ]

detectFakeSlip(id, cy) ==
    LET v == isValid(id, cy) IN
    IF ~v.valid THEN InvalidDetection(v)
    ELSE LET p == v.parsed IN
         Assessment(p,
            Overall(Check4(p, Check3(p, cy, Check2(p, Check1(p, InitialAssessment))))))

---------------------------------------------------------------------------
(* ValidationService.quickValidate / validateAndDetectFake                 *)

RecommendAccept        == "Accept"
RecommendInvalidFormat == "Reject - Invalid format"

quickValidate(id, cy) ==
    LET v             == isValid(id, cy)
        fakeDetection == IF v.valid THEN detectFakeSlip(id, cy) ELSE NULL
    IN [ valid             |-> v.valid,
         transactionId     |-> id,
         reason            |-> v.reason,
         parsed            |-> v.parsed,
         fakeSlipDetection |-> fakeDetection,
         recommendation    |->
            IF v.valid
            THEN (IF fakeDetection # NULL THEN fakeDetection.recommendation
                  ELSE RecommendAccept)
            ELSE RecommendInvalidFormat ]

validateAndDetectFake(id, cy) ==
    LET v == isValid(id, cy) IN
    IF ~v.valid
    THEN [ valid          |-> FALSE,
           isFake         |-> TRUE,
           riskLevel      |-> "HIGH",
           reason         |-> v.reason,
           recommendation |-> RecommendInvalid ]
    ELSE LET fakeDetection == detectFakeSlip(id, cy) IN
         [ valid          |-> v.valid,
           isFake         |-> fakeDetection.isSuspicious,
           riskLevel      |-> fakeDetection.riskLevel,
           reasons        |-> fakeDetection.reasons,
           recommendation |-> fakeDetection.recommendation,
           parsed         |-> v.parsed,
           details        |-> [ prefix          |-> v.parsed.prefix,
                                year            |-> v.parsed.year,
                                time            |-> v.parsed.time,
                                type            |-> v.parsed.type,
                                typeDescription |-> v.parsed.typeDescription,
                                sequence        |-> v.parsed.sequence ] ]

---------------------------------------------------------------------------
(* The inputs: identifiers assembled from field values that reach every    *)
(* check of the parser, plus the values that are not identifiers at all.   *)

MaxPad == 1

YearSpan == 2

\* the Buddhist-era years the clock may show
Years == (2470 + 97)..(2470 + 97 + YearSpan)

Prefixes ==
    { <<"0", "1", "5", "2">>, <<"0", "1", "5", "3">>, <<"1", "5", "2">> }

YearCodes ==
    { <<"9", "2">>, <<"9", "4">>, <<"9", "5">>, <<"9", "8">>, <<"9", "9">> }

Times ==
    { <<"0", "0", "0", "0", "0", "0">>, <<"1", "7", "0", "8", "1", "9">>,
      <<"2", "3", "5", "9", "5", "9">>, <<"2", "4", "0", "0", "0", "0">>,
      <<"2", "3", "6", "0", "0", "0">>, <<"2", "3", "5", "9", "6", "0">>,
      <<"0", "0", "0", "0", "0", "1">>, <<"0", "1", "0", "0", "0", "0">> }

TypeCodes ==
    { <<"B", "Q", "R", "0">>, <<"X", "X", "X", "X">>, <<"b", "q", "r", "0">>,
      <<"B", "Q", "-", "0">>, <<"A", "T", "F">> }

SequenceNumbers ==
    { <<"2", "6", "5">>, <<"2", "6", "5", "1">>, <<"1", "1", "1", "1">>,
      <<"2", "2", "2", "2", "2">>, <<"2", "6", "5", "1", "1">>,
      <<"2", "6", "5", "1", "1", "1">> }

Repeat(c, n) == [i \in 1..n |-> c]

Compose(prefix, yy, time, type, seq, pad) ==
    Repeat(" ", pad) \o prefix \o yy \o time \o Repeat("\t", pad)
        \o type \o seq \o Repeat("\n", pad)

StringInputs ==
    { [isString |-> TRUE, chars |-> Compose(prefix, yy, time, type, seq, pad)] :
        prefix \in Prefixes, yy \in YearCodes, time \in Times, type \in TypeCodes,
        seq \in SequenceNumbers, pad \in 0..MaxPad }

\* null, undefined, a number, an object: anything with typeof !== 'string'
NonString == [isString |-> FALSE, chars |-> <<>>]

EmptyString == [isString |-> TRUE, chars |-> <<>>]

Blank == [isString |-> TRUE, chars |-> <<" ", " ">>]

Inputs == StringInputs \cup {NonString, EmptyString, Blank}

---------------------------------------------------------------------------
(* The driver of test-validation.js: parse, isValid, detectFakeSlip (step  *)
(* by step), quickValidate, validateAndDetectFake on one identifier.       *)

Init ==
    /\ transactionId \in Inputs
    /\ currentYear \in Years
    /\ pc = "start"
    /\ parsed = NULL
    /\ validation = NULL
    /\ riskLevel = "LOW"
    /\ suspiciousReasons = <<>>
    /\ detection = NULL
    /\ quick = NULL
    /\ combined = NULL
    /\ ocrDateTime = NULL
    /\ verification = NULL
    /\ slipData = NULL
    /\ expectedData = NULL
    /\ result = NULL
    /\ ocrText = NULL
    /\ extraction = NULL
    /\ Constructed

Parse ==
    /\ pc = "start"
    /\ parsed' = parse(transactionId, currentYear)
    /\ pc' = "parsed"
    /\ UNCHANGED <<slipVars, ocrVars, workerVars>>
    /\ UNCHANGED <<transactionId, currentYear, validation, riskLevel,
                   suspiciousReasons, detection, quick, combined>>

IsValid ==
    /\ pc = "parsed"
    /\ validation' = isValid(transactionId, currentYear)
    /\ pc' = "validated"
    /\ UNCHANGED <<slipVars, ocrVars, workerVars>>
    /\ UNCHANGED <<transactionId, currentYear, parsed, riskLevel,
                   suspiciousReasons, detection, quick, combined>>

\* detectFakeSlip's own const parsed = validation.parsed
Local == isValid(transactionId, currentYear).parsed

Running == [riskLevel |-> riskLevel, reasons |-> suspiciousReasons]

\* detectFakeSlip up to the first check: the call of isValid and the early return
DetectBegin ==
    /\ pc = "validated"
    /\ LET v == isValid(transactionId, currentYear) IN
       IF ~v.valid
       THEN /\ detection' = InvalidDetection(v)
            /\ pc' = "detected"
            /\ UNCHANGED <<riskLevel, suspiciousReasons>>
       ELSE /\ riskLevel' = InitialAssessment.riskLevel
            /\ suspiciousReasons' = InitialAssessment.reasons
            /\ pc' = "check1"
            /\ UNCHANGED detection
    /\ UNCHANGED <<slipVars, ocrVars, workerVars>>
    /\ UNCHANGED <<transactionId, currentYear, parsed, validation, quick, combined>>

Step(from, to, st) ==
    /\ pc = from
    /\ riskLevel' = st.riskLevel
    /\ suspiciousReasons' = st.reasons
    /\ pc' = to
    /\ UNCHANGED <<slipVars, ocrVars, workerVars>>
    /\ UNCHANGED <<transactionId, currentYear, parsed, validation, detection,
                   quick, combined>>

DetectCheck1 == Step("check1", "check2", Check1(Local, Running))

DetectCheck2 == Step("check2", "check3", Check2(Local, Running))

DetectCheck3 == Step("check3", "check4", Check3(Local, currentYear, Running))

DetectCheck4 == Step("check4", "overall", Check4(Local, Running))

DetectOverall == Step("overall", "return", Overall(Running))

DetectReturn ==
    /\ pc = "return"
    /\ detection' = Assessment(Local, Running)
    /\ pc' = "detected"
    /\ UNCHANGED <<slipVars, ocrVars, workerVars>>
    /\ UNCHANGED <<transactionId, currentYear, parsed, validation, riskLevel,
                   suspiciousReasons, quick, combined>>

QuickValidate ==
    /\ pc = "detected"
    /\ quick' = quickValidate(transactionId, currentYear)
    /\ pc' = "quick"
    /\ UNCHANGED <<slipVars, ocrVars, workerVars>>
    /\ UNCHANGED <<transactionId, currentYear, parsed, validation, riskLevel,
                   suspiciousReasons, detection, combined>>

ValidateAndDetectFake ==
    /\ pc = "quick"
    /\ combined' = validateAndDetectFake(transactionId, currentYear)
    /\ pc' = "done"
    /\ UNCHANGED <<slipVars, ocrVars, workerVars>>
    /\ UNCHANGED <<transactionId, currentYear, parsed, validation, riskLevel,
                   suspiciousReasons, detection, quick>>

Next ==
    \/ Parse
    \/ IsValid
    \/ DetectBegin
    \/ DetectCheck1
    \/ DetectCheck2
    \/ DetectCheck3
    \/ DetectCheck4
    \/ DetectOverall
    \/ DetectReturn
    \/ QuickValidate
    \/ ValidateAndDetectFake

Spec == Init /\ [][Next]_vars

---------------------------------------------------------------------------
(* Properties                                                              *)

Id_QR       == <<"0","1","5","2","9","8","1","7","0","8","1","9","B","Q","R","0","2","6","5","1">>
Id_Repeated == <<"0","1","5","2","9","8","1","7","0","8","1","9","B","Q","R","0","1","1","1","1">>
Id_Midnight == <<"0","1","5","2","9","8","0","0","0","0","0","0","B","Q","R","0","2","6","5","1">>

HasLower(s) == \E i \in 1..Len(s) : UpperChar(s[i]) # s[i]

HasSpace(s) == \E i \in 1..Len(s) : IsSpace(s[i])

\* C1: parse and isValid agree on every input value (non-strings, empty and blank
\* strings, strings with surrounding and inner whitespace and lower-case letters):
\* parse returns a record exactly when isValid reports valid, and then
\* isValid's parsed record equals the record parse returns.
C1_ParserValidatorAgree ==
    pc \notin {"start", "parsed"} =>
        /\ (parsed # NULL) <=> (validation.valid = TRUE)
        /\ validation.valid => validation.parsed = parsed
        /\ ~validation.valid => validation.parsed = NULL

C1_Witness ==
    /\ pc = "validated"
    /\ parsed # NULL
    /\ validation.valid
    /\ HasLower(transactionId.chars)
    /\ HasSpace(transactionId.chars)

C1_WitnessRejected ==
    /\ pc = "validated"
    /\ parsed = NULL
    /\ ~validation.valid
    /\ transactionId \in {NonString, EmptyString, Blank}

\* The acceptance condition of the grammar, stated on the cleaned identifier.
Accepted(chars, cy) ==
    LET c == ToUpperCase(RemoveWhitespace(Trim(chars))) IN
    /\ Len(c) \in {20, 21}
    /\ \A i \in 1..4 : c[i] = <<"0", "1", "5", "2">>[i]
    /\ \A i \in 5..12 : IsDigit(c[i])
    /\ \A i \in 13..16 : IsUpperAlnum(c[i])
    /\ Len(c) - 16 \in 3..5
    /\ \A i \in 17..Len(c) : IsDigit(c[i])
    /\ 10 * DigitVal(c[7]) + DigitVal(c[8]) <= 23
    /\ 10 * DigitVal(c[9]) + DigitVal(c[10]) <= 59
    /\ 10 * DigitVal(c[11]) + DigitVal(c[12]) <= 59
    /\ 2470 + 10 * DigitVal(c[5]) + DigitVal(c[6]) >= cy - 5
    /\ 2470 + 10 * DigitVal(c[5]) + DigitVal(c[6]) <= cy + 1

\* the identifier with the type code at positions 13..16 replaced
WithType(c, type) ==
    [isString |-> TRUE, chars |-> SubSeq(c, 1, 12) \o type \o SubSeq(c, 17, Len(c))]

OtherTypes ==
    { <<"B", "P", "M", "O">>, <<"Z", "Z", "9", "9">>, <<"8", "0", "8", "0">> }

\* C2: parse accepts an input exactly when its cleaned form has the prefix 0152,
\* length 20 or 21, 8 digits, 4 alphanumeric characters and 3 to 5 digits, a time
\* within 23:59:59 and a year 2470 + yearCode within [currentYear - 5,
\* currentYear + 1]; replacing the type code by any other alphanumeric code, known
\* or unknown, never changes acceptance, and an unknown code only gives
\* isKnownType = FALSE with the 'Unknown' description.
C2_AcceptanceCondition ==
    pc = "parsed" =>
        /\ (parsed # NULL) <=> Accepted(transactionId.chars, currentYear)
        /\ LET c == Clean(transactionId.chars) IN
           (Len(c) >= 17 /\ AllUpperAlnum(SubSeq(c, 13, 16))) =>
               \A type \in OtherTypes :
                   LET q == parse(WithType(c, type), currentYear) IN
                   /\ (q # NULL) <=> (parsed # NULL)
                   /\ q # NULL => /\ q.type = type
                                  /\ q.isKnownType = HasType(type)
                                  /\ q.year = parsed.year
                                  /\ q.time = parsed.time
                                  /\ q.sequence = parsed.sequence
        /\ parsed # NULL =>
               (parsed.isKnownType = FALSE <=> ~HasType(SubSeq(parsed.raw, 13, 16)))
        /\ (parsed # NULL /\ ~parsed.isKnownType) =>
               parsed.typeDescription = UnknownTypeDescription

\* an accepted identifier with an unknown type code, at both ends of the year window
C2_Witness ==
    /\ pc = "parsed"
    /\ parsed # NULL
    /\ ~parsed.isKnownType
    /\ parsed.year \in {currentYear - 5, currentYear + 1}

C2_WitnessRejectedYear ==
    /\ pc = "parsed"
    /\ parsed = NULL
    /\ Accepted(transactionId.chars, currentYear + 1)
    /\ ~Accepted(transactionId.chars, currentYear)

ParsedFields ==
    { "raw", "valid", "prefix", "year", "yearCode", "time", "hour", "minute", "second",
      "type", "typeDescription", "isKnownType", "sequence", "length", "timestamp",
      "validPrefix", "validLength", "validPattern", "validTime", "validYear" }

WellFormedRecord(p) ==
    /\ DOMAIN p = ParsedFields
    /\ p.hour \in 0..23
    /\ p.minute \in 0..59
    /\ p.second \in 0..59
    /\ p.length \in {20, 21}
    /\ Len(p.raw) = p.length
    /\ ~HasSpace(p.raw)
    /\ ~HasLower(p.raw)
    /\ p.validPrefix /\ p.validLength /\ p.validPattern /\ p.validTime /\ p.validYear
    /\ p.prefix = SubSeq(p.raw, 1, 4)
    /\ p.yearCode = SubSeq(p.raw, 5, 6)
    /\ p.type = SubSeq(p.raw, 13, 16)
    /\ p.sequence = SubSeq(p.raw, 17, Len(p.raw))
    /\ p.timestamp = [year |-> p.year, hour |-> p.hour, minute |-> p.minute,
                      second |-> p.second]

\* C3: every record parse returns has hour in 0..23, minute and second in 0..59,
\* length 20 or 21 and as raw the cleaned (whitespace-free, upper-case) identifier
\* of that length; parse returns either null or a record with every field set.
C3_ParsedRecordInvariant ==
    pc # "start" =>
        \/ parsed = NULL
        \/ /\ WellFormedRecord(parsed)
           /\ parsed.raw = SelectSeq(ToUpperCase(transactionId.chars),
                                     LAMBDA ch : ~IsSpace(ch))

C3_Witness ==
    /\ pc = "parsed"
    /\ parsed # NULL
    /\ parsed.hour = 23 /\ parsed.minute = 59 /\ parsed.second = 59
    /\ parsed.length = 21
    /\ parsed.raw # transactionId.chars


\* the structural checks, stated on the cleaned identifier
WrongPrefix(c) == Len(c) < 4 \/ \E i \in 1..4 : c[i] # <<"0", "1", "5", "2">>[i]

WrongLength(c) == Len(c) \notin {20, 21}

WrongPattern(c) ==
    ~ /\ \A i \in 5..12 : i <= Len(c) /\ IsDigit(c[i])
      /\ \A i \in 13..16 : i <= Len(c) /\ IsUpperAlnum(c[i])
      /\ Len(c) - 16 \in 3..5
      /\ \A i \in 17..Len(c) : IsDigit(c[i])

\* the reason of the first failing check, in the order
\* (presence) -> prefix -> length -> pattern -> semantic parse
FirstFailure(id, cy) ==
    LET c == Clean(id.chars) IN
    IF ~id.isString \/ id.chars = <<>> THEN ReasonRequired
    ELSE IF WrongPrefix(c) THEN ReasonPrefix
    ELSE IF WrongLength(c) THEN ReasonLength
    ELSE IF WrongPattern(c) THEN ReasonPattern
    ELSE IF ~Accepted(id.chars, cy) THEN ReasonParse
    ELSE ReasonValid

\* C4: when isValid rejects an identifier its reason is that of the first failing
\* check in the order prefix, length, pattern, semantic parse: a wrong prefix is
\* reported as a prefix mismatch whatever else is wrong, a correct prefix with a
\* wrong length as a length error, and the semantic reason only when the first
\* three checks pass (a missing, empty or non-string value is refused before them
\* as 'required').
C4_FirstFailingCheck ==
    pc = "validated" =>
        LET c == Clean(transactionId.chars) IN
        /\ validation.reason.text = FirstFailure(transactionId, currentYear)
        /\ validation.valid <=> validation.reason.text = ReasonValid
        /\ (~NotAString(transactionId) /\ WrongPrefix(c)) =>
               /\ validation.reason.text = ReasonPrefix
               /\ validation.reason.arg = SubSeq(c, 1, IF Len(c) < 4 THEN Len(c) ELSE 4)
        /\ (~NotAString(transactionId) /\ ~WrongPrefix(c) /\ WrongLength(c)) =>
               /\ validation.reason.text = ReasonLength
               /\ parseInt(validation.reason.arg) = Len(c)
        /\ validation.reason.text = ReasonParse =>
               ~WrongPrefix(c) /\ ~WrongLength(c) /\ ~WrongPattern(c)

\* a wrong prefix together with a wrong length and a broken pattern
C4_Witness ==
    /\ pc = "validated"
    /\ ~validation.valid
    /\ validation.reason.text = ReasonPrefix
    /\ WrongLength(Clean(transactionId.chars))
    /\ WrongPattern(Clean(transactionId.chars))

C4_WitnessLength ==
    /\ pc = "validated"
    /\ validation.reason.text = ReasonLength
    /\ WrongPattern(Clean(transactionId.chars))

C4_WitnessSemantic ==
    /\ pc = "validated"
    /\ validation.reason.text = ReasonParse

\* C5: with the clock at 2568 BE, 015298170819BQR02651 parses to year 2568, time
\* 17:08:19, type BQR0 'Bill QR Payment', sequence 2651, a known type, and
\* detectFakeSlip gives LOW with no reasons.
C5_CanonicalScenario ==
    (pc = "done" /\ transactionId.chars = Id_QR /\ currentYear = 2568) =>
        /\ parsed # NULL
        /\ parsed.year = 2568
        /\ parsed.time = <<"1", "7", ":", "0", "8", ":", "1", "9">>
        /\ parsed.type = <<"B", "Q", "R", "0">>
        /\ parsed.typeDescription = "Bill QR Payment"
        /\ parsed.sequence = <<"2", "6", "5", "1">>
        /\ parsed.isKnownType = TRUE
        /\ detection.riskLevel = "LOW"
        /\ detection.reasons = <<>>

C5_Witness ==
    /\ pc = "done"
    /\ transactionId.chars = Id_QR
    /\ currentYear = 2568
    /\ detection.riskLevel = "LOW"

\* the four heuristics in check order, decided from the parsed record
Fired(p, cy) ==
    << ~HasType(p.type),
       \A i \in 1..Len(p.sequence) : p.sequence[i] = p.sequence[1],
       p.year < cy - 2,
       p.time = <<"0", "0", ":", "0", "0", ":", "0", "0">> >>

HeuristicText == <<ReasonUnknownType, ReasonRepetitive, ReasonOlder, ReasonMidnight>>

FiredTexts(p, cy) ==
    LET f == Fired(p, cy)
        Pick(i) == IF f[i] THEN <<HeuristicText[i]>> ELSE <<>>
    IN Pick(1) \o Pick(2) \o Pick(3) \o Pick(4)

LevelForCount(n) == IF n = 0 THEN "LOW" ELSE IF n <= 2 THEN "MEDIUM" ELSE "HIGH"

ReasonTexts(reasons) == [i \in 1..Len(reasons) |-> reasons[i].text]

\* C6: for every valid identifier the risk level is fixed by the number of fired
\* heuristics (unknown type, one repeated digit, year older than currentYear - 2,
\* time 00:00:00): LOW for none, MEDIUM for one or two, HIGH for three or more,
\* with one reason per fired heuristic in check order; 015298170819BQR01111 is
\* MEDIUM with the repetitive reason and 015298000000BQR02651 is at least MEDIUM
\* with the 00:00:00 reason.
C6_LevelByFiredCount ==
    (pc = "detected" /\ validation.valid) =>
        LET texts == FiredTexts(validation.parsed, currentYear) IN
        /\ ReasonTexts(detection.reasons) = texts
        /\ detection.riskLevel = LevelForCount(Len(texts))
        /\ detection.isSuspicious <=> Len(texts) > 0
        /\ transactionId.chars = Id_Repeated =>
               /\ detection.riskLevel = "MEDIUM"
               /\ \E i \in 1..Len(detection.reasons) :
                      detection.reasons[i].text = ReasonRepetitive
        /\ transactionId.chars = Id_Midnight =>
               /\ detection.riskLevel \in {"MEDIUM", "HIGH"}
               /\ \E i \in 1..Len(detection.reasons) :
                      detection.reasons[i].text = ReasonMidnight

\* all four heuristics fire
C6_Witness ==
    /\ pc = "detected"
    /\ validation.valid
    /\ Len(detection.reasons) = 4
    /\ detection.riskLevel = "HIGH"

C6_WitnessMedium ==
    /\ pc = "detected"
    /\ validation.valid
    /\ Len(detection.reasons) = 2
    /\ detection.riskLevel = "MEDIUM"

C6_WitnessScenarios ==
    /\ pc = "detected"
    /\ validation.valid
    /\ transactionId.chars \in {Id_Repeated, Id_Midnight}

Rank(level) == IF level = "LOW" THEN 0 ELSE IF level = "MEDIUM" THEN 1 ELSE 2

\* C7: within one detectFakeSlip assessment the running risk level never
\* decreases from one check to the next (type, sequence, year, midnight, count).
C7_RiskNeverDecreases == [][Rank(riskLevel') >= Rank(riskLevel)]_vars

\* raised by the first check, with a later check firing as well
C7_Witness ==
    /\ pc = "overall"
    /\ Len(suspiciousReasons) >= 2
    /\ suspiciousReasons[1].text = ReasonUnknownType
    /\ suspiciousReasons[Len(suspiciousReasons)].text = ReasonMidnight
    /\ riskLevel = "MEDIUM"

\* a well-formed identifier (grammar and time in range) with a year after cy + 1
FutureYear(chars, cy) ==
    LET m == PatternMatch(Clean(chars)) IN
    /\ m.matched
    /\ Len(Clean(chars)) \in {20, 21}
    /\ ~TimeInvalid(parseInt(m.hh), parseInt(m.mm), parseInt(m.ss))
    /\ 2470 + parseInt(m.yy) > cy + 1

\* C8: for an identifier whose year 2470 + yearCode is greater than
\* currentYear + 1, detectFakeSlip returns HIGH and its reasons include the
\* reason that the transaction year is in the future.
C8_FutureYearFlagged ==
    (pc = "detected" /\ FutureYear(transactionId.chars, currentYear)) =>
        /\ detection.riskLevel = "HIGH"
        /\ \E i \in 1..Len(detection.reasons) : detection.reasons[i].text = ReasonFuture

HeuristicTexts ==
    {ReasonUnknownType, ReasonRepetitive, ReasonOlder, ReasonFuture, ReasonMidnight}

\* C9: for every identifier isValid rejects, detectFakeSlip returns on its early
\* path: HIGH, suspicious, the single validation reason, no parsed record, and no
\* heuristic check runs or contributes a reason.
C9_InvalidPreempts ==
    (pc \in {"detected", "quick", "done"} /\ ~validation.valid) =>
        /\ detection.riskLevel = "HIGH"
        /\ detection.isSuspicious = TRUE
        /\ detection.reasons = <<validation.reason>>
        /\ detection.parsed = NULL
        /\ detection.reasons[1].text \notin HeuristicTexts
        /\ suspiciousReasons = <<>>
        /\ riskLevel = "LOW"

\* a rejected identifier on which heuristics would have fired
C9_Witness ==
    /\ pc = "detected"
    /\ ~validation.valid
    /\ LET c == Clean(transactionId.chars) IN
       /\ Len(c) >= 20
       /\ SubSeq(c, 7, 12) = <<"0", "0", "0", "0", "0", "0">>
       /\ SubSeq(c, 13, 16) = <<"X", "X", "X", "X">>

\* the leading word of a recommendation text
Verdict(recommendation) ==
    IF recommendation \in {RecommendInvalid, RecommendHigh, RecommendInvalidFormat}
    THEN "Reject"
    ELSE IF recommendation = RecommendMedium THEN "Review"
    ELSE "Accept"

VerdictFor(level) ==
    IF level = "HIGH" THEN "Reject" ELSE IF level = "MEDIUM" THEN "Review" ELSE "Accept"

\* identifiers whose results are compared with the current one
Comparands ==
    { [isString |-> TRUE, chars |-> Id_QR],
      [isString |-> TRUE, chars |-> Id_Repeated],
      [isString |-> TRUE,
       chars |-> <<"0","1","5","2","9","5","0","0","0","0","0","0",
                   "X","X","X","X","1","1","1","1">>],
      NonString }

\* C10 as stated: any two results of detectFakeSlip, and of
\* validateAndDetectFake, with the same risk level carry the same recommendation.
C10_SameLevelSameRecommendation ==
    pc = "done" =>
        \A other \in Comparands :
            LET d == detectFakeSlip(other, currentYear)
                v == validateAndDetectFake(other, currentYear)
            IN /\ d.riskLevel = detection.riskLevel =>
                      d.recommendation = detection.recommendation
               /\ v.riskLevel = combined.riskLevel =>
                      v.recommendation = combined.recommendation

\* C10 (amended): the verdict of the recommendation (Accept, Review or Reject) is
\* fixed by the final risk level alone: LOW gives Accept, MEDIUM Review, HIGH
\* Reject, in detectFakeSlip, quickValidate and validateAndDetectFake, and any two
\* results with the same level carry the same verdict; on the scored path the
\* whole text is fixed by the level.
C10_VerdictByLevel ==
    pc = "done" =>
        /\ Verdict(detection.recommendation) = VerdictFor(detection.riskLevel)
        /\ Verdict(combined.recommendation) = VerdictFor(combined.riskLevel)
        /\ Verdict(quick.recommendation) = VerdictFor(detection.riskLevel)
        /\ quick.valid => quick.recommendation = quick.fakeSlipDetection.recommendation
        /\ validation.valid =>
               detection.recommendation \in {RecommendLow, RecommendMedium, RecommendHigh}
        /\ \A other \in Comparands :
               LET d == detectFakeSlip(other, currentYear)
                   v == validateAndDetectFake(other, currentYear)
               IN /\ d.riskLevel = detection.riskLevel =>
                         /\ Verdict(d.recommendation) = Verdict(detection.recommendation)
                         /\ (validation.valid /\ d.parsed # NULL) =>
                                d.recommendation = detection.recommendation
                  /\ v.riskLevel = combined.riskLevel =>
                         Verdict(v.recommendation) = Verdict(combined.recommendation)

\* HIGH reached by scoring, to compare with HIGH for a rejected identifier
C10_Witness ==
    /\ pc = "done"
    /\ validation.valid
    /\ detection.riskLevel = "HIGH"
    /\ detection.recommendation = RecommendHigh
    /\ detectFakeSlip(NonString, currentYear).riskLevel = "HIGH"
    /\ detectFakeSlip(NonString, currentYear).recommendation = RecommendInvalid

\* an identifier of 19 characters that the position-by-position grammar
\* matches: prefix, 8 digits, 4-character type code and a 3-digit sequence
ShortSequence(c) ==
    /\ Len(c) = 19
    /\ StartsWith(c, KBANK_PREFIX)
    /\ AllDigits(SubSeq(c, 5, 12))
    /\ AllUpperAlnum(SubSeq(c, 13, 16))
    /\ AllDigits(SubSeq(c, 17, 19))

\* C29: the sequence field of every record parse returns has length - 16
\* digits, 4 for an identifier of 20 characters and 5 for one of 21; an
\* identifier with a 3-digit sequence, 19 characters in all, is accepted
\* neither by parse nor by isValid although the grammar matches it.
C29_SequenceLength ==
    pc # "start" =>
        /\ parsed # NULL =>
              /\ Len(parsed.sequence) = parsed.length - 16
              /\ AllDigits(parsed.sequence)
              /\ parsed.length = 20 => Len(parsed.sequence) = 4
              /\ parsed.length = 21 => Len(parsed.sequence) = 5
              /\ Len(parsed.sequence) \in {4, 5}
        /\ (transactionId.isString /\ ShortSequence(Clean(transactionId.chars))) =>
              /\ parsed = NULL
              /\ pc # "parsed" => ~validation.valid

\* a 19-character identifier of valid time and year, refused by both
C29_Witness ==
    /\ pc = "validated"
    /\ transactionId.isString
    /\ ShortSequence(Clean(transactionId.chars))
    /\ Accepted(Clean(transactionId.chars) \o <<"0">>, currentYear)
    /\ parsed = NULL
    /\ ~validation.valid

\* a record of 21 characters with its 5-digit sequence
C29_WitnessFiveDigits ==
    /\ pc = "parsed"
    /\ parsed # NULL
    /\ parsed.length = 21
    /\ Len(parsed.sequence) = 5

---------------------------------------------------------------------------
(* The parser over the years: parse on identifiers of every year code,     *)
(* with the clock anywhere between 2560 and 2560 + ClockSpan BE.           *)

ClockSpan == 20

\* the canonical identifier with the year code of yy
IdOfYearCode(yy) ==
    KBANK_PREFIX \o <<Digits[(yy \div 10) + 1], Digits[(yy % 10) + 1]>>
                 \o SubSeq(Id_QR, 7, 20)

YearInit ==
    /\ transactionId \in { [isString |-> TRUE, chars |-> IdOfYearCode(yy)] : yy \in 0..99 }
    /\ currentYear \in (2470 + 90)..(2470 + 90 + ClockSpan)
    /\ pc = "start"
    /\ parsed = NULL
    /\ validation = NULL
    /\ riskLevel = "LOW"
    /\ suspiciousReasons = <<>>
    /\ detection = NULL
    /\ quick = NULL
    /\ combined = NULL
    /\ ocrDateTime = NULL
    /\ verification = NULL
    /\ slipData = NULL
    /\ expectedData = NULL
    /\ result = NULL
    /\ ocrText = NULL
    /\ extraction = NULL
    /\ Constructed

YearSpec == YearInit /\ [][Parse]_vars

\* C30: whatever the current year is, parse accepts the identifier of at
\* least one of the year codes 00..99: the window from currentYear - 5 to
\* currentYear + 1 always holds one of the years 2470..2569 BE.
C30_SomeYearCodeAccepted ==
    pc = "parsed" =>
        \E yy \in 0..99 : parse([isString |-> TRUE, chars |-> IdOfYearCode(yy)], currentYear) # NULL

---------------------------------------------------------------------------
(* Regular expressions. Every pattern the program uses is a concatenation *)
(* of quantified character classes: an item is a class (a set of          *)
(* characters), a minimum and a maximum count, and whether the quantifier  *)
(* is lazy. Matching backtracks as the JavaScript engine does: a greedy    *)
(* item tries its largest count first, a lazy one its smallest.            *)

Item(cls, min, max) == [cls |-> cls, min |-> min, max |-> max, lazy |-> FALSE]

\* the maximum of the quantifiers * and +
Unbounded == 1000

DigitClass == { Digits[i] : i \in 1..Len(Digits) }

\* [A-Z] under the i flag
LetterClass == { UpperLetters[i] : i \in 1..Len(UpperLetters) }
                 \cup { LowerLetters[i] : i \in 1..Len(LowerLetters) }

\* a literal, one item per character; under the i flag either case matches
Literal(chars, ignoreCase) ==
    [i \in 1..Len(chars) |->
        Item(IF ignoreCase
             THEN {chars[i], UpperChar(chars[i])}
                  \cup { LowerLetters[j] : j \in { j \in 1..Len(UpperLetters) :
                                                     UpperLetters[j] = chars[i] } }
             ELSE {chars[i]}, 1, 1)]

\* how many characters from position p on are in the class, up to max
RECURSIVE Run(_, _, _, _)
Run(s, p, cls, max) ==
    IF max > 0 /\ p <= Len(s) /\ s[p] \in cls THEN 1 + Run(s, p + 1, cls, max - 1) ELSE 0

\* The items from the k-th on, matched at position p: the positions where
\* each of them starts, then the position after the last, or <<>> when they
\* do not match. toEnd is the $ anchor. MatchCount is the same with the k-th
\* item taking n characters or, failing that, its next count in order.
RECURSIVE MatchItems(_, _, _, _, _)
RECURSIVE MatchCount(_, _, _, _, _, _)
MatchItems(items, k, s, p, toEnd) ==
    IF k > Len(items)
    THEN IF toEnd /\ p # Len(s) + 1 THEN <<>> ELSE <<p>>
    ELSE MatchCount(items, k, s, p,
                    IF items[k].lazy THEN items[k].min
                    ELSE Run(s, p, items[k].cls, items[k].max),
                    toEnd)

MatchCount(items, k, s, p, n, toEnd) ==
    IF n < items[k].min \/ n > Run(s, p, items[k].cls, items[k].max) THEN <<>>
    ELSE LET rest == MatchItems(items, k + 1, s, p + n, toEnd) IN
         IF rest # <<>> THEN <<p>> \o rest
         ELSE MatchCount(items, k, s, p, IF items[k].lazy THEN n + 1 ELSE n - 1, toEnd)

\* the leftmost match at or after position p
RECURSIVE Search(_, _, _)
Search(items, s, p) ==
    IF p > Len(s) THEN <<>>
    ELSE LET m == MatchItems(items, 1, s, p, FALSE) IN
         IF m # <<>> THEN m ELSE Search(items, s, p + 1)

\* Array.from(s.matchAll(pattern)): the successive matches from position p on
RECURSIVE MatchAll(_, _, _)
MatchAll(items, s, p) ==
    LET m == Search(items, s, p) IN
    IF m = <<>> THEN <<>>
    ELSE <<m>> \o MatchAll(items, s, m[Len(m)])

\* the text of the items from the i-th to the j-th of a match
Group(s, m, i, j) == SubSeq(s, m[i], m[j + 1] - 1)

---------------------------------------------------------------------------
(* TransactionParser.verifyDateTime                                        *)

\* A JavaScript number that may be null: <<>> is null, <<n>> is the number n.
NoNumber == <<>>

Number(n) == <<n>>

\* template interpolation of a number that may be null
Interpolate(v) == IF v = NoNumber THEN <<"n", "u", "l", "l">> ELSE ToDecimal(v[1])

\* String(v).padStart(2, '0')
PadStart2(s) == IF Len(s) < 2 THEN Repeat("0", 2 - Len(s)) \o s ELSE s

\* /(\d{1,2}):(\d{2})/
timePattern == <<Item(DigitClass, 1, 2), Item({":"}, 1, 1), Item(DigitClass, 2, 2)>>

\* ocrDateTime.match(/(\d{1,2}):(\d{2})/)
MatchTime(s) ==
    LET m == Search(timePattern, s, 1) IN
    IF m = <<>> THEN [matched |-> FALSE]
    ELSE [matched |-> TRUE, hour |-> Group(s, m, 1, 1), minute |-> Group(s, m, 3, 3)]

\* ocrDateTime.match(/\s(\d{2})\s+(\d{1,2}):(\d{2})/)
MatchYear(s) ==
    LET space == {" ", "\t", "\n"}
        m     == Search(<<Item(space, 1, 1), Item(DigitClass, 2, 2),
                          Item(space, 1, Unbounded)>> \o timePattern, s, 1)
    IN IF m = <<>> THEN [matched |-> FALSE]
       ELSE [matched |-> TRUE, year |-> Group(s, m, 2, 2)]

\* a variant of the minute difference without Math.abs
minuteDiff_Signed(a, b) == a - b

\* Math.abs(parsed.minute - ocrMinute)
minuteDiff(a, b) == IF a < b THEN b - a ELSE a - b

\* a variant of the tolerance that demands a difference below 2
minuteMatches_Below2(diff) == diff < 2

\* minuteDiff <= 2
minuteMatches(diff) == diff <= 2

\* a variant of the date comparison that compares the two year codes
dateMatches_Compared(p, yearMatch) ==
    ~yearMatch.matched \/ parseInt(yearMatch.year) = parseInt(p.yearCode)

\* let dateMatches = true, and dateMatches = true again when a year was read
dateMatches(p, yearMatch) == TRUE

\* !ocrDateTime: null, undefined or the empty string
Falsy(text) == ~text.isString \/ text.chars = <<>>

verifyDateTime(id, text, cy) ==
    LET p == parse(id, cy) IN
    IF p = NULL
    THEN [valid |-> FALSE, message |-> Msg("Invalid transaction ID format", <<>>),
          dateMatch |-> FALSE, timeMatch |-> FALSE]
    ELSE IF Falsy(text)
    THEN [valid |-> FALSE, message |-> Msg("OCR date/time not provided", <<>>),
          dateMatch |-> FALSE, timeMatch |-> FALSE]
    ELSE LET yearMatch == MatchYear(text.chars)
             timeMatch == MatchTime(text.chars)
             ocrYear   == IF yearMatch.matched
                          THEN Number(parseInt(yearMatch.year)) ELSE NoNumber
             ocrHour   == IF timeMatch.matched
                          THEN Number(parseInt(timeMatch.hour)) ELSE NoNumber
             ocrMinute == IF timeMatch.matched
                          THEN Number(parseInt(timeMatch.minute)) ELSE NoNumber
             dateOk    == dateMatches(p, yearMatch)
             timeOk    == /\ timeMatch.matched
                          /\ p.hour = ocrHour[1]
                          /\ minuteMatches(minuteDiff(p.minute, ocrMinute[1]))
             overallMatch == dateOk /\ timeOk
         IN [valid     |-> overallMatch,
             dateMatch |-> dateOk,
             timeMatch |-> timeOk,
             transactionDateTime |->
                 [year |-> p.year, yearCode |-> p.yearCode, time |-> p.time,
                  hour |-> p.hour, minute |-> p.minute],
             ocrDateTime |->
                 [raw      |-> text.chars,
                  year     |-> IF ocrYear # NoNumber /\ ocrYear[1] # 0
                               THEN Number(2470 + ocrYear[1]) ELSE NoNumber,
                  yearCode |-> ocrYear,
                  hour     |-> ocrHour,
                  minute   |-> ocrMinute],
             message |->
                 IF overallMatch
                 THEN Msg("Date and time match between transaction ID and OCR", <<>>)
                 ELSE Msg("Mismatch - Transaction: Time ${parsed.hour}:${String(parsed.minute).padStart(2, '0')} | OCR: Year ${ocrYear}, Time ${ocrHour}:${String(ocrMinute).padStart(2, '0')}",
                          ToDecimal(p.hour) \o <<"|">>
                            \o PadStart2(ToDecimal(p.minute)) \o <<"|">>
                            \o Interpolate(ocrYear) \o <<"|">>
                            \o Interpolate(ocrHour) \o <<"|">>
                            \o PadStart2(Interpolate(ocrMinute)))]

---------------------------------------------------------------------------
(* The cross-verifier on its own: verifyDateTime on one identifier and one *)
(* date/time text of the slip.                                             *)

Text(chars) == [isString |-> TRUE, chars |-> chars]

\* the date/time text is null when the OCR found none
NoText == [isString |-> FALSE, chars |-> <<>>]

\* Date/time texts as the slip prints them: day and month ("25 <month> "),
\* two-digit year, hour:minute, the abbreviation for o'clock and a second
\* time, each part present, absent or misread; and the line as printed.
OcrDateTimes ==
    LET DayMonth == <<"2", "5", " ", "TO_TAO", ".", "KHO_KHWAI", ".", " ">>
        Oclock   == <<" ", "NO_NU", ".">>
        dates    == { <<>>, DayMonth }
        years    == { <<>>, <<"6", "8", " ">>, <<"6", "7", " ">>,
                      <<"6", "8", " ", " ">> }
        times    == { <<>>,
                      <<"1", "7", ":", "0", "6">>, <<"1", "7", ":", "0", "8">>,
                      <<"1", "7", ":", "1", "0">>, <<"1", "7", ":", "1", "1">>,
                      <<"1", "7", ":", "1", "2">>, <<"1", "8", ":", "0", "8">>,
                      <<"7", ":", "5", "8">>, <<"1", "7", "0", "8">> }
        suffixes == { <<>>, Oclock \o <<" ", "0", "9", ":", "3", "0">> }
    IN { Text(d \o y \o t \o x) :
           d \in dates, y \in years, t \in times, x \in suffixes }
       \cup { Text(DayMonth \o <<"6", "8", " ", "1", "7", ":", "0", "8">> \o Oclock),
               NoText }

\* Identifiers of two year codes and four times of day (one of them not a
\* time), and no identifier at all.
VerifyIds ==
    LET times == { <<"1", "7", "0", "8", "1", "9">>, <<"1", "7", "0", "0", "1", "9">>,
                   <<"0", "7", "5", "8", "0", "0">>, <<"2", "5", "0", "8", "1", "9">> }
        codes == { <<"9", "7">>, <<"9", "8">> }
    IN { Text(KBANK_PREFIX \o yy \o t \o <<"B", "Q", "R", "0", "2", "6", "5", "1">>) :
           yy \in codes, t \in times }
       \cup { NoText }

VerifyInit ==
    /\ transactionId \in VerifyIds
    /\ currentYear \in Years
    /\ ocrDateTime \in OcrDateTimes
    /\ pc = "verify"
    /\ verification = NULL
    /\ parsed = NULL
    /\ validation = NULL
    /\ riskLevel = "LOW"
    /\ suspiciousReasons = <<>>
    /\ detection = NULL
    /\ quick = NULL
    /\ combined = NULL
    /\ slipData = NULL
    /\ expectedData = NULL
    /\ result = NULL
    /\ ocrText = NULL
    /\ extraction = NULL
    /\ Constructed

VerifyDateTime ==
    /\ pc = "verify"
    /\ verification' = verifyDateTime(transactionId, ocrDateTime, currentYear)
    /\ pc' = "verified"
    /\ UNCHANGED <<transactionId, currentYear, ocrDateTime, slipData,
                   expectedData, result>>
    /\ UNCHANGED <<parserVars, ocrVars, workerVars>>

VerifySpec == VerifyInit /\ [][VerifyDateTime]_vars

\* verifyDateTime went past both early returns
Compared == /\ pc = "verified"
            /\ parse(transactionId, currentYear) # NULL
            /\ ~Falsy(ocrDateTime)

\* the positions of the text where an hour:minute pair starts
PairPositions(s) == { i \in 1..Len(s) : MatchItems(timePattern, 1, s, i, FALSE) # <<>> }

\* C11: for a parseable identifier and a date/time text with an hour:minute
\* pair, timeMatch is true exactly when the identifier's hour equals the
\* hour of the (first) pair and the two minutes differ by at most 2; with no
\* hour:minute pair in the text timeMatch is false.
C11_TimeMatchRule ==
    Compared =>
        LET p     == parse(transactionId, currentYear)
            s     == ocrDateTime.chars
            pairs == PairPositions(s)
        IN IF pairs = {}
           THEN verification.timeMatch = FALSE
           ELSE LET first == MatchItems(timePattern, 1, s,
                                        CHOOSE i \in pairs : \A j \in pairs : i <= j, FALSE)
                    h     == parseInt(Group(s, first, 1, 1))
                    m     == parseInt(Group(s, first, 3, 3))
                IN verification.timeMatch =
                       (p.hour = h /\ p.minute - m <= 2 /\ m - p.minute <= 2)

C11_Witness ==
    /\ Compared
    /\ verification.timeMatch
    /\ verification.ocrDateTime.minute # Number(verification.transactionDateTime.minute)

C11_WitnessTooFar ==
    /\ Compared
    /\ ~verification.timeMatch
    /\ verification.ocrDateTime.hour = Number(verification.transactionDateTime.hour)

C11_WitnessNoPair ==
    /\ Compared
    /\ PairPositions(ocrDateTime.chars) = {}
    /\ ~verification.timeMatch

\* the identifier's time of day, as parse reads it: 17:08:19
At1708 == /\ Compared
          /\ verification.transactionDateTime.hour = 17
          /\ verification.transactionDateTime.minute = 8

\* the hour:minute the cross-verifier read from the text
Read(h, m) == /\ verification.ocrDateTime.hour = Number(h)
              /\ verification.ocrDateTime.minute = Number(m)

\* C12 as stated: with parsed time 17:08:19, timeMatch is true for a text
\* with 17:08, true for a text with 17:11 and false for a text with 17:12.
C12_ScenarioAsStated ==
    At1708 =>
        /\ Read(17, 8)  => verification.timeMatch
        /\ Read(17, 11) => verification.timeMatch
        /\ Read(17, 12) => ~verification.timeMatch

\* C12 amended: with parsed time 17:08:19, timeMatch is true for a text with
\* 17:08 (and up to 17:10), false for a text with 17:11 (three minutes apart,
\* beyond the two-minute tolerance) and false for a text with 17:12.
C12_Scenario ==
    At1708 =>
        /\ Read(17, 8)  => verification.timeMatch
        /\ Read(17, 10) => verification.timeMatch
        /\ Read(17, 11) => ~verification.timeMatch
        /\ Read(17, 12) => ~verification.timeMatch

C12_Witness == At1708 /\ Read(17, 11) /\ ~verification.timeMatch

C12_WitnessMatch == At1708 /\ Read(17, 8) /\ verification.timeMatch

\* the first hour:minute pair of a text, as characters
FirstPair(text) ==
    LET m == MatchTime(text.chars) IN
    IF m.matched THEN <<m.hour, m.minute>> ELSE <<>>

\* the texts with the same first hour:minute pair as the one verified
SamePairTexts ==
    { t \in OcrDateTimes :
        /\ ~Falsy(t)
        /\ FirstPair(t) # <<>>
        /\ FirstPair(t) = FirstPair(ocrDateTime) }

\* the identifiers that differ from the one verified in the year code only
OtherYearCodes ==
    { id \in VerifyIds :
        /\ parse(id, currentYear) # NULL
        /\ Len(id.chars) = Len(transactionId.chars)
        /\ \A i \in 1..Len(id.chars) :
               i \notin {5, 6} => id.chars[i] = transactionId.chars[i] }

ScenarioVerified ==
    /\ pc = "verified"
    /\ transactionId = Text(Id_QR)
    /\ ocrDateTime = Text(<<"2", "5", " ", "TO_TAO", ".", "KHO_KHWAI", ".", " ",
                            "6", "8", " ", "1", "7", ":", "0", "8", " ", "NO_NU", ".">>)

\* C25: for identifier 015298170819BQR02651 and the date/time text
\* "25 <month> 68 17:08 <o'clock>", verifyDateTime returns valid, dateMatch and
\* timeMatch true, transactionDateTime.year 2568, and an ocrDateTime of year
\* code 68, year 2568 of the Buddhist era, hour 17 and minute 8.
C25_YearInBuddhistEra ==
    ScenarioVerified =>
        /\ verification.valid
        /\ verification.dateMatch
        /\ verification.timeMatch
        /\ verification.transactionDateTime.year = 2568
        /\ verification.ocrDateTime.yearCode = Number(68)
        /\ verification.ocrDateTime.year = Number(2568)
        /\ verification.ocrDateTime.hour = Number(17)
        /\ verification.ocrDateTime.minute = Number(8)

---------------------------------------------------------------------------
(* ValidationService.validateTime / validateAmount / validateRecipient     *)

\* String.prototype.split(':')
RECURSIVE Split(_)
Split(s) ==
    IF \E i \in 1..Len(s) : s[i] = ":"
    THEN LET i == CHOOSE i \in 1..Len(s) :
                      s[i] = ":" /\ \A j \in 1..(i - 1) : s[j] # ":"
         IN <<SubSeq(s, 1, i - 1)>> \o Split(SubSeq(s, i + 1, Len(s)))
    ELSE <<s>>

\* the leading decimal digits of a string
RECURSIVE LeadingDigits(_)
LeadingDigits(s) ==
    IF s # <<>> /\ IsDigit(Head(s)) THEN <<Head(s)>> \o LeadingDigits(Tail(s)) ELSE <<>>

\* parseInt(s, 10) on any unsigned string: leading whitespace is skipped, the
\* leading digits are read, and NaN (here: no number) results when there are none
parseIntOrNaN(s) ==
    LET digits == LeadingDigits(TrimLeft(s)) IN
    IF digits = <<>> THEN NoNumber ELSE Number(parseInt(digits))

\* Math.abs(slipMinute - transMinute); NaN when the slip's minute is NaN
slipMinuteDiff(slipMinute, transMinute) ==
    IF slipMinute = NoNumber THEN NoNumber
    ELSE IF slipMinute[1] < transMinute[1]
    THEN Number(transMinute[1] - slipMinute[1])
    ELSE Number(slipMinute[1] - transMinute[1])

\* hourMatch && minuteMatch of validateTime; a comparison with NaN is false
timeMatches(slipHour, slipMinute, transHour, transMinute) ==
    /\ slipHour # NoNumber /\ slipHour = transHour
    /\ slipMinuteDiff(slipMinute, transMinute) # NoNumber
    /\ slipMinuteDiff(slipMinute, transMinute)[1] <= 2

validateTime(slip, parsedTransaction) ==
    IF slip.dateTime = NULL \/ Falsy(slip.dateTime.time)
    THEN [valid |-> FALSE, message |-> Msg("Time not found in slip", <<>>)]
    ELSE LET slipTime        == slip.dateTime.time.chars
             transactionTime == parsedTransaction.time
             slipParts       == Split(slipTime)
             transParts      == Split(transactionTime)
         IN
         IF Len(slipParts) < 2 \/ Len(transParts) < 2
         THEN [valid |-> FALSE, message |-> Msg("Invalid time format", <<>>)]
         ELSE LET slipHour    == parseIntOrNaN(slipParts[1])
                  slipMinute  == parseIntOrNaN(slipParts[2])
                  transHour   == parseIntOrNaN(transParts[1])
                  transMinute == parseIntOrNaN(transParts[2])
                  valid       == timeMatches(slipHour, slipMinute, transHour, transMinute)
              IN [valid           |-> valid,
                  slipTime        |-> slipTime,
                  transactionTime |-> transactionTime,
                  hourMatch       |-> slipHour # NoNumber /\ slipHour = transHour,
                  minuteDiff      |-> slipMinuteDiff(slipMinute, transMinute),
                  message         |->
                      IF valid
                      THEN Msg("Time matches between slip and transaction ID", <<>>)
                      ELSE Msg("Time mismatch: Slip shows ${slipTime}, transaction ID indicates ${transactionTime}",
                               slipTime \o <<"|">> \o transactionTime)]

\* String(amount) of an amount held in hundredths: 150000 is "1500", 150002 is "1500.02"
FormatAmount(n) ==
    LET whole == ToDecimal(n \div 100)
        cents == n % 100
    IN IF cents = 0 THEN whole
       ELSE IF cents % 10 = 0 THEN whole \o <<".">> \o ToDecimal(cents \div 10)
       ELSE whole \o <<".">> \o PadStart2(ToDecimal(cents))

\* validateAmount with the default tolerance of 0.01; amounts are in hundredths
validateAmount(actualAmount, expectedAmount) ==
    LET difference == IF actualAmount < expectedAmount
                      THEN expectedAmount - actualAmount
                      ELSE actualAmount - expectedAmount
        valid      == difference <= 1
    IN [valid          |-> valid,
        actualAmount   |-> actualAmount,
        expectedAmount |-> expectedAmount,
        difference     |-> difference,
        message        |->
            IF valid THEN Msg("Amount matches expected value", <<>>)
            ELSE Msg("Amount mismatch: Expected ${expectedAmount} but found ${actualAmount}",
                     FormatAmount(expectedAmount) \o <<"|">> \o FormatAmount(actualAmount))]

\* str.toLowerCase().replace(/\s+/g, '')
normalize(str) ==
    LET LowerChar(c) ==
            IF \E i \in 1..Len(UpperLetters) : UpperLetters[i] = c
            THEN LowerLetters[CHOOSE i \in 1..Len(UpperLetters) : UpperLetters[i] = c]
            ELSE c
    IN RemoveWhitespace([i \in 1..Len(str) |-> LowerChar(str[i])])

\* String.prototype.includes
Includes(s, part) ==
    \E i \in 0..(Len(s) - Len(part)) : SubSeq(s, i + 1, i + Len(part)) = part

validateRecipient(actualRecipient, expectedRecipient) ==
    LET actualNorm   == normalize(actualRecipient)
        expectedNorm == normalize(expectedRecipient)
        match        == Includes(actualNorm, expectedNorm) \/ Includes(expectedNorm, actualNorm)
    IN [valid             |-> match,
        actualRecipient   |-> actualRecipient,
        expectedRecipient |-> expectedRecipient,
        message           |->
            IF match THEN Msg("Recipient name matches", <<>>)
            ELSE Msg("Recipient mismatch: Expected \"${expectedRecipient}\" but found \"${actualRecipient}\"",
                     expectedRecipient \o <<"|">> \o actualRecipient)]

---------------------------------------------------------------------------
(* ValidationService.validateSlip                                          *)

\* reasons.join(', '); a message interpolated into another is its template
\* followed by its own interpolated characters
RECURSIVE Join(_)
Join(reasons) ==
    IF reasons = <<>> THEN <<>>
    ELSE IF Len(reasons) = 1 THEN <<reasons[1].text>> \o reasons[1].arg
    ELSE <<reasons[1].text>> \o reasons[1].arg \o <<", ">> \o Join(Tail(reasons))

\* const result = { valid: false, errors: [], warnings: [], details: {}, ... }
InitialResult ==
    [ valid |-> FALSE, errors |-> <<>>, warnings |-> <<>>, details |-> <<>>,
      score |-> 0, maxScore |-> 0, fakeSlipDetection |-> NULL ]

\* result.errors.push(message)
PushError(r, message) == [r EXCEPT !.errors = Append(@, message)]

\* result.warnings.push(message)
PushWarning(r, message) == [r EXCEPT !.warnings = Append(@, message)]

\* result.maxScore += outOf; result.score += points
Award(r, points, outOf) == [r EXCEPT !.score = @ + points, !.maxScore = @ + outOf]

\* result.details[key] = value
Detail(r, key, value) == [r EXCEPT !.details = (key :> value) @@ @]

\* a variant of the authenticity check that only warns at HIGH risk
Authenticity_HighWarns(r, fakeDetection) ==
    LET r1 == Award([r EXCEPT !.fakeSlipDetection = fakeDetection], 0, 25) IN
    IF fakeDetection.riskLevel = "LOW"
    THEN Detail(Award(r1, 25, 0), "authenticity", "Likely authentic")
    ELSE IF fakeDetection.riskLevel = "MEDIUM"
    THEN PushWarning(Detail(Award(r1, 15, 0), "authenticity", "Review required"),
                     Msg("Suspicious indicators: ${fakeDetection.reasons.join(', ')}",
                         Join(fakeDetection.reasons)))
    ELSE PushWarning(Detail(r1, "authenticity", "High risk of fake"),
                     Msg("High risk fake slip: ${fakeDetection.reasons.join(', ')}",
                         Join(fakeDetection.reasons)))

\* fake slip detection: 25 points at LOW, 15 at MEDIUM, an error at HIGH
Authenticity(r, fakeDetection) ==
    LET r1 == Award([r EXCEPT !.fakeSlipDetection = fakeDetection], 0, 25) IN
    IF fakeDetection.riskLevel = "LOW"
    THEN Detail(Award(r1, 25, 0), "authenticity", "Likely authentic")
    ELSE IF fakeDetection.riskLevel = "MEDIUM"
    THEN PushWarning(Detail(Award(r1, 15, 0), "authenticity", "Review required"),
                     Msg("Suspicious indicators: ${fakeDetection.reasons.join(', ')}",
                         Join(fakeDetection.reasons)))
    ELSE PushError(Detail(r1, "authenticity", "High risk of fake"),
                   Msg("High risk fake slip: ${fakeDetection.reasons.join(', ')}",
                       Join(fakeDetection.reasons)))

\* slipData.dateTime && slipData.dateTime.rawOCR
HasRawOCR(slip) == slip.dateTime # NULL /\ ~Falsy(slip.dateTime.rawOCR)

\* time consistency: verifyDateTime on the raw text when there is one,
\* validateTime on the pre-parsed time otherwise; 25 points
TimeConsistency(r, slip, parsedTransaction, cy) ==
    LET Verified(timeValidation) ==
            LET r1 == Award(Detail(r, "timeValidation", timeValidation), 0, 25) IN
            IF timeValidation.valid THEN Award(r1, 25, 0)
            ELSE LET r2 == IF timeValidation.dateMatch = FALSE
                           THEN PushError(r1, Msg("Date mismatch between transaction ID and OCR", <<>>))
                           ELSE r1
                     r3 == IF timeValidation.timeMatch = FALSE
                           THEN PushError(r2, Msg("Time mismatch between transaction ID and OCR", <<>>))
                           ELSE r2
                 IN PushWarning(r3, timeValidation.message)
        Legacy(timeValidation) ==
            LET r1 == Award(Detail(r, "timeValidation", timeValidation), 0, 25) IN
            IF timeValidation.valid THEN Award(r1, 25, 0)
            ELSE PushError(r1, timeValidation.message)
    IN IF HasRawOCR(slip)
       THEN Verified(verifyDateTime(slip.transactionId, slip.dateTime.rawOCR, cy))
       ELSE Legacy(validateTime(slip, parsedTransaction))

\* a number that is neither null, undefined nor 0
Truthy(n) == n # NoNumber /\ n[1] # 0

\* amount presence, 20 points, and the comparison with the expected amount,
\* 15 points, when one is given
AmountCheck(r, slip, expected) ==
    LET r1 == Award(r, 0, 20) IN
    IF Truthy(slip.amount) /\ slip.amount[1] > 0
    THEN LET r2 == Detail(Award(r1, 20, 0), "amount", slip.amount[1]) IN
         IF Truthy(expected.amount)
         THEN LET amountMatch == validateAmount(slip.amount[1], expected.amount[1])
                  r3 == Award(Detail(r2, "amountValidation", amountMatch), 0, 15)
              IN IF amountMatch.valid THEN Award(r3, 15, 0)
                 ELSE PushError(r3, amountMatch.message)
         ELSE r2
    ELSE PushWarning(r1, Msg("Amount not found or invalid in slip", <<>>))

\* recipient comparison, 10 points, when both names are given
RecipientCheck(r, slip, expected) ==
    IF ~Falsy(expected.recipient) /\ ~Falsy(slip.recipient)
    THEN LET recipientMatch == validateRecipient(slip.recipient.chars, expected.recipient.chars)
             r1 == Award(Detail(r, "recipientValidation", recipientMatch), 0, 10)
         IN IF recipientMatch.valid THEN Award(r1, 10, 0)
            ELSE PushWarning(r1, recipientMatch.message)
    ELSE r

\* OCR confidence, 15 points; an undefined confidence compares false
ConfidenceCheck(r, slip) ==
    LET r1 == Award(r, 0, 15) IN
    IF slip.ocrConfidence # NoNumber /\ slip.ocrConfidence[1] >= 70
    THEN Detail(Award(r1, 15, 0), "ocrQuality", "Good")
    ELSE IF slip.ocrConfidence # NoNumber /\ slip.ocrConfidence[1] >= 50
    THEN PushWarning(Detail(Award(r1, 10, 0), "ocrQuality", "Fair"),
                     Msg("OCR confidence is below optimal level", <<>>))
    ELSE PushWarning(Detail(r1, "ocrQuality", "Poor"),
                     Msg("Low OCR confidence - results may be unreliable", <<>>))

\* a variant of the threshold that accepts from 60 percent
PassesThreshold_From60(score, maxScore) == score * 100 >= 60 * maxScore

\* (result.score / result.maxScore) * 100 >= 70; on the scores the checks can
\* produce the quotient of doubles compares as the exact quotient does
PassesThreshold(score, maxScore) == score * 100 >= 70 * maxScore

\* Calculate final validity; scorePercentage is Math.round of the percentage
FinalValidity(r) ==
    [valid |-> Len(r.errors) = 0 /\ PassesThreshold(r.score, r.maxScore),
     scorePercentage |-> (200 * r.score + r.maxScore) \div (2 * r.maxScore)] @@ r

\* a variant of the first check that goes on with a failed extraction
ParseFailed_Ignored(slip) == FALSE

\* if (!slipData.success)
ParseFailed(slip) == ~slip.success

validateSlip(slip, expected, cy) ==
    IF ParseFailed(slip)
    THEN PushError(InitialResult, Msg("Failed to parse slip image", <<>>))
    ELSE IF Falsy(slip.transactionId)
    THEN PushError(InitialResult, Msg("Transaction ID not found in slip", <<>>))
    ELSE LET validationResult == isValid(slip.transactionId, cy) IN
         IF ~validationResult.valid
         THEN PushError(InitialResult,
                        Msg("Invalid transaction ID: ${validationResult.reason}",
                            <<validationResult.reason.text>>
                                \o validationResult.reason.arg))
         ELSE LET parsedTransaction == validationResult.parsed
                  r0 == Detail(InitialResult, "transactionInfo", parsedTransaction)
                  r1 == Authenticity(r0, detectFakeSlip(slip.transactionId, cy))
                  r2 == TimeConsistency(r1, slip, parsedTransaction, cy)
                  r3 == AmountCheck(r2, slip, expected)
                  r4 == RecipientCheck(r3, slip, expected)
                  r5 == ConfidenceCheck(r4, slip)
              IN FinalValidity(r5)

---------------------------------------------------------------------------
(* The orchestrator on its own: validateSlip on one extraction result and  *)
(* one set of expected data.                                               *)

\* an identifier of unknown type, repetitive sequence number and time 00:00:00
Id_Suspicious == <<"0","1","5","2","9","8","0","0","0","0","0","0","X","X","X","X","1","1","1","1">>

\* an identifier with the wrong prefix
Id_Foreign == <<"0","1","5","3","9","8","1","7","0","8","1","9","B","Q","R","0","2","6","5","1">>

\* slipData.dateTime: absent, with the raw text of the slip, or with the
\* pre-parsed time only
SlipDateTimes ==
    LET printed == <<"2", "5", " ", "TO_TAO", ".", "KHO_KHWAI", ".", " ", "6", "8", " ",
                     "1", "7", ":", "0", "8", " ", "NO_NU", ".">>
        raws    == { printed, <<"1", "7", ":", "1", "1">>, <<"0", ":", "0", "1">>,
                     <<"2", "5", " ", "6", "8">> }
        times   == { <<>>, <<"1", "7", ":", "0", "8">>, <<"1", "7", ":", "1", "0">>,
                     <<"1", "7", ":", "1", "1">>, <<"1", "7", "0", "8">>,
                     <<"1", "7", ":">>, <<"0", "0", ":", "0", "2">> }
    IN { NULL }
       \cup { [rawOCR |-> Text(raw), time |-> NoText] : raw \in raws }
       \cup { [rawOCR |-> NoText, time |-> Text(t)] : t \in times }
       \cup { [rawOCR |-> Text(<<"1", "7", ":", "1", "1">>),
               time   |-> Text(<<"1", "7", ":", "0", "8">>)] }

\* the recipient read from the slip and the recipient expected: none, equal
\* up to case and spacing, different, or expected but not read
Recipients ==
    { <<NoText, NoText>>,
      <<Text(<<"A", "B", "C", " ", "S", "h", "o", "p">>), Text(<<"a", "b", "c">>)>>,
      <<Text(<<"X", "Y", "Z">>), Text(<<"a", "b", "c">>)>>,
      <<NoText, Text(<<"a", "b", "c">>)>> }

\* Extraction results that succeeded, over every combination of identifier,
\* date/time, amount (in hundredths), recipient and OCR confidence, and
\* extraction results that failed.
SlipInputs ==
    LET ids     == { NoText, Text(<<>>), Text(Id_QR), Text(Id_Repeated),
                     Text(Id_Suspicious), Text(Id_Foreign) }
        amounts == { NoNumber, Number(0), Number(150000), Number(150002) }
        levels  == { Number(49), Number(50), Number(69), Number(70) }
    IN { [success |-> TRUE, transactionId |-> id, dateTime |-> dt, amount |-> a,
          recipient |-> rc[1], ocrConfidence |-> c] :
           id \in ids, dt \in SlipDateTimes, a \in amounts, rc \in Recipients,
           c \in levels }
       \cup
       { [success |-> FALSE, transactionId |-> id, dateTime |-> dt,
          amount |-> Number(150000), recipient |-> NoText,
          ocrConfidence |-> Number(70)] :
           id \in ids, dt \in SlipDateTimes }

ExpectedInputs ==
    { [amount |-> a, recipient |-> rc] :
        a \in { NoNumber, Number(150000) },
        rc \in { NoText, Text(<<"a", "b", "c">>) } }

SlipInit ==
    /\ slipData \in SlipInputs
    /\ expectedData \in
         { e \in ExpectedInputs :
             \E rc \in Recipients : rc[1] = slipData.recipient /\ rc[2] = e.recipient }
    /\ currentYear \in Years
    /\ pc = "validate"
    /\ result = NULL
    /\ transactionId = NULL
    /\ ocrDateTime = NULL
    /\ verification = NULL
    /\ parsed = NULL
    /\ validation = NULL
    /\ riskLevel = "LOW"
    /\ suspiciousReasons = <<>>
    /\ detection = NULL
    /\ quick = NULL
    /\ combined = NULL
    /\ ocrText = NULL
    /\ extraction = NULL
    /\ Constructed

ValidateSlip ==
    /\ pc = "validate"
    /\ result' = validateSlip(slipData, expectedData, currentYear)
    /\ pc' = "validated slip"
    /\ UNCHANGED <<transactionId, currentYear, ocrDateTime, verification,
                   slipData, expectedData>>
    /\ UNCHANGED <<parserVars, ocrVars, workerVars>>

SlipSpec == SlipInit /\ [][ValidateSlip]_vars

\* validateSlip went past its three early returns
Scored ==
    /\ pc = "validated slip"
    /\ slipData.success
    /\ ~Falsy(slipData.transactionId)
    /\ isValid(slipData.transactionId, currentYear).valid

ShortCircuited == pc = "validated slip" /\ ~Scored

\* the single error an early return of validateSlip pushes
ShortCircuitError ==
    IF ~slipData.success THEN Msg("Failed to parse slip image", <<>>)
    ELSE IF Falsy(slipData.transactionId)
    THEN Msg("Transaction ID not found in slip", <<>>)
    ELSE LET reason == isValid(slipData.transactionId, currentYear).reason IN
         Msg("Invalid transaction ID: ${validationResult.reason}",
             <<reason.text>> \o reason.arg)

\* C14: when the extraction failed, or there is no identifier, or isValid
\* rejects the identifier, the result has valid = false, exactly one error
\* (the one naming that failure), score = 0, maxScore = 0, no warnings, no
\* details and fakeSlipDetection = null: none of the scoring checks ran.
C14_ShortCircuit ==
    ShortCircuited =>
        /\ result.valid = FALSE
        /\ result.errors = <<ShortCircuitError>>
        /\ result.score = 0
        /\ result.maxScore = 0
        /\ result.warnings = <<>>
        /\ result.details = <<>>
        /\ result.fakeSlipDetection = NULL

\* a failed extraction whose identifier, time and amount would have scored
C14_Witness ==
    /\ ShortCircuited
    /\ ~slipData.success
    /\ slipData.transactionId = Text(Id_QR)
    /\ HasRawOCR(slipData)
    /\ result.errors = <<Msg("Failed to parse slip image", <<>>)>>

C14_WitnessNoId ==
    /\ ShortCircuited /\ slipData.success /\ Falsy(slipData.transactionId)

C14_WitnessRejectedId ==
    /\ ShortCircuited /\ slipData.success
    /\ slipData.transactionId = Text(Id_Foreign)

\* C15: for every call that is not short-circuited, valid is true if and only
\* if errors is empty and score / maxScore >= 0.70.
C15_Verdict ==
    Scored =>
        (result.valid <=>
            /\ result.errors = <<>>
            /\ result.maxScore > 0
            /\ 100 * result.score >= 70 * result.maxScore)

\* no error, and rejected on the score alone
C15_Witness ==
    /\ Scored
    /\ result.errors = <<>>
    /\ 100 * result.score < 70 * result.maxScore
    /\ ~result.valid

C15_WitnessAccepted == Scored /\ result.valid /\ result.score < result.maxScore

C15_WitnessErrorOnly ==
    /\ Scored
    /\ result.errors # <<>>
    /\ 100 * result.score >= 70 * result.maxScore
    /\ ~result.valid

\* the risk level the scorer gives the slip's identifier
SlipRisk == detectFakeSlip(slipData.transactionId, currentYear).riskLevel

\* validateSlip without its authenticity check: the other four checks on a
\* result that holds the parsed identifier only
OtherChecks ==
    LET parsedTransaction == isValid(slipData.transactionId, currentYear).parsed
        r0 == Detail(InitialResult, "transactionInfo", parsedTransaction)
    IN ConfidenceCheck(
           RecipientCheck(
               AmountCheck(
                   TimeConsistency(r0, slipData, parsedTransaction, currentYear),
                   slipData, expectedData),
               slipData, expectedData),
           slipData)

\* C16: the authenticity check always adds 25 to maxScore and adds 25 to
\* score at LOW risk, 15 at MEDIUM risk with one warning and no error, 0 at
\* HIGH risk with one hard error; no slip whose identifier is assessed HIGH
\* is returned with valid = true.
C16_Authenticity ==
    Scored =>
        LET points   == result.score - OtherChecks.score
            outOf    == result.maxScore - OtherChecks.maxScore
            errors   == Len(result.errors) - Len(OtherChecks.errors)
            warnings == Len(result.warnings) - Len(OtherChecks.warnings)
        IN /\ outOf = 25
           /\ SlipRisk = "LOW"    => points = 25 /\ errors = 0 /\ warnings = 0
           /\ SlipRisk = "MEDIUM" => points = 15 /\ errors = 0 /\ warnings = 1
           /\ SlipRisk = "HIGH"   => points = 0 /\ errors = 1 /\ warnings = 0
           /\ SlipRisk = "HIGH"   => ~result.valid

\* a HIGH-risk identifier on a slip that loses no other point: 85 of 110
C16_Witness ==
    /\ Scored
    /\ SlipRisk = "HIGH"
    /\ Len(result.errors) = 1
    /\ result.score = result.maxScore - 25
    /\ ~result.valid

C16_WitnessMedium == Scored /\ SlipRisk = "MEDIUM" /\ result.valid

\* the time check of the slip found the two times different
TimeMismatch ==
    /\ Scored
    /\ ~result.details["timeValidation"].valid
    /\ IF HasRawOCR(slipData)
       THEN MatchTime(slipData.dateTime.rawOCR.chars).matched
       ELSE result.details["timeValidation"].message.text
              = "Time mismatch: Slip shows ${slipTime}, transaction ID indicates ${transactionTime}"

\* the slip loses no error and enough score when the time points are withheld
PassesOtherwise ==
    LET timeErrors == IF HasRawOCR(slipData)
                      THEN { Msg("Time mismatch between transaction ID and OCR", <<>>) }
                      ELSE { result.details["timeValidation"].message }
    IN /\ \A i \in 1..Len(result.errors) : result.errors[i] \in timeErrors
       /\ 100 * result.score >= 70 * result.maxScore

\* C17: a time mismatch is soft: it only withholds the 25 time points and
\* adds no hard error, so a slip that passes every other check with enough
\* score is returned with valid = true.
C17_TimeMismatchIsSoft ==
    TimeMismatch =>
        /\ \A i \in 1..Len(result.errors) :
               result.errors[i].text \notin
                   { "Time mismatch between transaction ID and OCR",
                     "Time mismatch: Slip shows ${slipTime}, transaction ID indicates ${transactionTime}" }
        /\ PassesOtherwise => result.valid

\* C18: every rejection carries a reason in errors: valid = false implies
\* that errors is not empty, also when only the score is below 0.70.
C18_RejectionHasError ==
    pc = "validated slip" => (~result.valid => result.errors # <<>>)

---------------------------------------------------------------------------
(* OCRService.cleanOCRText. Thai letters and numerals are written by the  *)
(* names of their code points.                                             *)

\* the regex class of the Thai block, U+0E01 to U+0E59
ThaiClass ==
    { "KO_KAI", "KHO_KHAI", "KHO_KHWAI", "CHO_CHAN", "CHO_CHANG", "SO_SO",
      "DO_DEK", "TO_TAO", "THO_THAHAN", "NO_NU", "BO_BAIMAI", "PHO_PHAN",
      "FO_FAN", "MO_MA", "YO_YAK", "RO_RUA", "LO_LING", "WO_WAEN",
      "SO_SUA", "O_ANG", "MAI_HAN-AKAT", "SARA_AA", "SARA_I", "SARA_II",
      "SARA_UU", "SARA_E", "SARA_AE", "SARA_O", "SARA_AI_MAIMALAI",
      "MAITAIKHU", "MAI_EK", "THANTHAKHAT", "THAI_ZERO", "THAI_ONE",
      "THAI_TWO", "THAI_THREE", "THAI_FOUR", "THAI_FIVE", "THAI_SIX",
      "THAI_SEVEN", "THAI_EIGHT", "THAI_NINE" }

\* a variant of the replacement that rewrites the first occurrence only
ReplaceAll_First(s, wrong, correct) ==
    IF \E i \in 1..Len(s) : StartsWith(SubSeq(s, i, Len(s)), wrong)
    THEN LET i == CHOOSE i \in 1..Len(s) :
                      /\ StartsWith(SubSeq(s, i, Len(s)), wrong)
                      /\ \A j \in 1..(i - 1) : ~StartsWith(SubSeq(s, j, Len(s)), wrong)
         IN SubSeq(s, 1, i - 1) \o correct \o SubSeq(s, i + Len(wrong), Len(s))
    ELSE s

\* s.replace(new RegExp(wrong, 'g'), correct) for a literal wrong
RECURSIVE ReplaceAll(_, _, _)
ReplaceAll(s, wrong, correct) ==
    IF s = <<>> THEN <<>>
    ELSE IF StartsWith(s, wrong)
    THEN correct \o ReplaceAll(SubSeq(s, Len(wrong) + 1, Len(s)), wrong, correct)
    ELSE <<Head(s)>> \o ReplaceAll(Tail(s), wrong, correct)

\* const ocrFixes = {...}: the [wrong, correct] pairs in the order of Object.entries
ocrFixes ==
    << <<<<"/", "SARA_E", "WO_WAEN">>, <<"A", "P", "M">>>>,
       <<<<"/", "SARA_E", "O_ANG", "THO_THAHAN", "SARA_II">>, <<"A", "T", "F">>>>,
       <<<<"/", "SARA_E", "O_ANG">>, <<"A">>>>,
       <<<<"/", "BO_BAIMAI", "SARA_II">>, <<"B">>>>,
       <<<<"SARA_E", "WO_WAEN", "MO_MA">>, <<"A", "P", "M">>>>,
       <<<<"SARA_E", "WO_WAEN">>, <<"A", "P", "M">>>>,
       <<<<"SARA_E", "O_ANG", "THO_THAHAN", "SARA_II">>, <<"A", "T", "F">>>>,
       <<<<"BO_BAIMAI", "SARA_II", "KHO_KHWAI", "SARA_I", "WO_WAEN">>, <<"B", "Q">>>>,
       <<<<"BO_BAIMAI", "SARA_II", "KHO_KHWAI", "SARA_I", "WO_WAEN", "O_ANG", "SARA_AA", "RO_RUA", "THANTHAKHAT">>, <<"B", "Q", "R">>>>,
       <<<<"BO_BAIMAI", "SARA_II", "PHO_PHAN", "SARA_II">>, <<"B", "P">>>>,
       <<<<"DO_DEK", "SARA_UU">>, <<"Q", "R">>>>,
       <<<<"DO_DEK", "SARA_UU", "O_ANG", "SARA_AA", "RO_RUA", "THANTHAKHAT">>, <<"Q", "R">>>>,
       <<<<"SARA_E", "O_ANG">>, <<"A">>>>,
       <<<<"BO_BAIMAI", "SARA_II">>, <<"B">>>>,
       <<<<"SO_SO", "SARA_II">>, <<"C">>>>,
       <<<<"DO_DEK", "SARA_II">>, <<"D">>>>,
       <<<<"O_ANG", "SARA_II">>, <<"E">>>>,
       <<<<"SARA_E", "O_ANG", "FO_FAN">>, <<"F">>>>,
       <<<<"CHO_CHAN", "SARA_II">>, <<"G">>>>,
       <<<<"SARA_E", "O_ANG", "CHO_CHANG">>, <<"H">>>>,
       <<<<"SARA_AI_MAIMALAI", "O_ANG">>, <<"I">>>>,
       <<<<"SARA_E", "CHO_CHAN">>, <<"J">>>>,
       <<<<"SARA_E", "KHO_KHWAI">>, <<"K">>>>,
       <<<<"SARA_AE", "O_ANG", "LO_LING">>, <<"L">>>>,
       <<<<"SARA_E", "O_ANG", "MAITAIKHU", "MO_MA">>, <<"M">>>>,
       <<<<"SARA_E", "O_ANG", "MAITAIKHU", "NO_NU">>, <<"N">>>>,
       <<<<"SARA_O", "O_ANG">>, <<"O">>>>,
       <<<<"PHO_PHAN", "SARA_II">>, <<"P">>>>,
       <<<<"KHO_KHWAI", "SARA_I", "WO_WAEN">>, <<"Q">>>>,
       <<<<"O_ANG", "SARA_AA", "RO_RUA", "THANTHAKHAT">>, <<"R">>>>,
       <<<<"SARA_E", "O_ANG", "SO_SUA">>, <<"S">>>>,
       <<<<"THO_THAHAN", "SARA_II">>, <<"T">>>>,
       <<<<"YO_YAK", "SARA_UU">>, <<"U">>>>,
       <<<<"WO_WAEN", "SARA_II">>, <<"V">>>>,
       <<<<"DO_DEK", "MAI_HAN-AKAT", "BO_BAIMAI", "SARA_E", "BO_BAIMAI", "SARA_I", "LO_LING", "YO_YAK", "SARA_UU">>, <<"W">>>>,
       <<<<"SARA_E", "O_ANG", "MAITAIKHU", "KO_KAI", "SO_SO", "THANTHAKHAT">>, <<"X">>>>,
       <<<<"WO_WAEN", "SARA_AA", "YO_YAK">>, <<"Y">>>>,
       <<<<"SARA_AE", "SO_SO", "DO_DEK">>, <<"Z">>>>,
       <<<<"SARA_E", "SARA_E", "O_ANG">>, <<"A">>>>,
       <<<<"THAI_ZERO">>, <<"0">>>>,
       <<<<"THAI_ONE">>, <<"1">>>>,
       <<<<"THAI_TWO">>, <<"2">>>>,
       <<<<"THAI_THREE">>, <<"3">>>>,
       <<<<"THAI_FOUR">>, <<"4">>>>,
       <<<<"THAI_FIVE">>, <<"5">>>>,
       <<<<"THAI_SIX">>, <<"6">>>>,
       <<<<"THAI_SEVEN">>, <<"7">>>>,
       <<<<"THAI_EIGHT">>, <<"8">>>>,
       <<<<"THAI_NINE">>, <<"9">>>> >>

\* const thaiToEnglish = {...}
thaiToEnglish ==
    << <<<<"DO_DEK", "SARA_UU">>, <<"Q", "R">>>>,
       <<<<"KHO_KHWAI", "SARA_I", "WO_WAEN">>, <<"Q">>>>,
       <<<<"O_ANG", "SARA_AA", "RO_RUA", "THANTHAKHAT">>, <<"R">>>>,
       <<<<"BO_BAIMAI", "SARA_II">>, <<"B">>>>,
       <<<<"SARA_E", "O_ANG">>, <<"A">>>>,
       <<<<"THO_THAHAN", "SARA_II">>, <<"T">>>>,
       <<<<"SARA_E", "O_ANG", "FO_FAN">>, <<"F">>>>,
       <<<<"PHO_PHAN", "SARA_II">>, <<"P">>>>,
       <<<<"SARA_E", "O_ANG", "MAITAIKHU", "MO_MA">>, <<"M">>>>,
       <<<<"SARA_O", "O_ANG">>, <<"O">>>> >>

\* the replacements of a table applied to s one after the other, from the k-th on
RECURSIVE ApplyFixes(_, _, _)
ApplyFixes(fixes, s, k) ==
    IF k > Len(fixes) THEN s
    ELSE LET replaced == ReplaceAll(s, fixes[k][1], fixes[k][2]) IN
         IF Len(replaced) = 0 THEN replaced ELSE ApplyFixes(fixes, replaced, k + 1)

\* cleanOCRText; a missing text counts as the empty string, which stays empty
cleanOCRText(text) == ApplyFixes(ocrFixes, text, 1)

---------------------------------------------------------------------------
(* OCRService.fixTransactionIdOCRErrors                                    *)

\* the rules for a middle section that is all digits, 2 to 4 of them: the
\* type code to put in its place, or <<>> when no rule fires. numberToLetter
\* leaves a digit without an entry as it is.
DigitMiddle(middle) ==
    LET numberToLetter(c) ==
            CASE c = "0" -> "O" [] c = "1" -> "I" [] c = "3" -> "B" [] c = "4" -> "A"
              [] c = "5" -> "S" [] c = "6" -> "F" [] c = "7" -> "T" [] c = "8" -> "B"
              [] c = "2" -> "Z" [] OTHER -> c
        knownCodes ==
            << <<"A", "T", "F", "0">>, <<"A", "T", "F">>, <<"A", "P", "M", "0">>,
               <<"A", "P", "M">>, <<"B", "Q", "R", "0">>, <<"B", "Q", "R">>,
               <<"B", "P", "M", "O">>, <<"T", "R", "F">>, <<"P", "M", "T">>,
               <<"B", "I", "L">> >>
        reconstructed == [i \in 1..Len(middle) |-> numberToLetter(middle[i])]
        upper         == ToUpperCase(reconstructed)
        codes         == { k \in 1..Len(knownCodes) :
                             \/ upper = knownCodes[k]
                             \/ StartsWith(upper, Substring0(knownCodes[k], 3)) }
    IN IF Len(middle) = 4 /\ middle[1] = "8" /\ middle[4] = "8" THEN <<"B", "Q", "R", "0">>
       ELSE IF middle \in { <<"8", "0", "0", "8">>, <<"8", "0", "8", "0">> } THEN <<"B", "Q", "R", "0">>
       ELSE IF middle \in { <<"8", "1", "6">>, <<"8", "1", "6", "0">> } THEN <<"A", "T", "F", "0">>
       ELSE IF /\ middle[1] = "8" /\ Len(middle) >= 3
               /\ Len(middle) = 4 /\ middle[4] = "0"
       THEN <<"B", "Q", "R", "0">>
       ELSE IF codes # {} THEN knownCodes[CHOOSE k \in codes : \A j \in codes : k <= j]
       ELSE IF Len(middle) = 4 /\ middle[4] = "0" THEN reconstructed
       ELSE <<>>

\* the rules for a mixed middle section, were every one to get a leading B
MixedMiddle_AlwaysB(middle) == <<"B">> \o Tail(middle)

\* the rules for a middle section of 3 or 4 characters with a capital letter
MixedMiddle(middle) ==
    LET n       == Len(middle)
        letters == n >= 3 /\ \A i \in 2..(n - 1) :
                                \E j \in 1..Len(UpperLetters) : UpperLetters[j] = middle[i]
    IN IF middle[1] = "8" /\ letters /\ middle[n] = "8"
       THEN <<"B">> \o SubSeq(middle, 2, n - 1) \o <<"0">>
       ELSE IF middle[1] = "8" /\ letters /\ middle[n] = "0"
       THEN <<"B">> \o SubSeq(middle, 2, n)
       ELSE middle

\* bqrPattern is /^(0152\d{8})(8QR[08]0?)(\d{4,5})$/: items 1-5 are the prefix,
\* 6-10 the misread type code, 11 the sequence number. splitPattern is
\* /^(0152\d{8})(.{2,7}?)(\d{3,5})$/: items 1-5 are the prefix, 6 the middle,
\* 7 the suffix; its class . ranges over the characters of the inputs.
fixTransactionIdOCRErrors(id) ==
    IF Len(id) < 20 THEN id
    ELSE LET dot == DigitClass \cup LetterClass \cup ThaiClass
                    \cup {" ", "\t", "/", ":", "."}
             bqrPattern ==
                 Literal(KBANK_PREFIX, FALSE)
                 \o <<Item(DigitClass, 8, 8), Item({"8"}, 1, 1), Item({"Q"}, 1, 1),
                      Item({"R"}, 1, 1), Item({"0", "8"}, 1, 1), Item({"0"}, 0, 1),
                      Item(DigitClass, 4, 5)>>
             splitPattern ==
                 Literal(KBANK_PREFIX, FALSE)
                 \o <<Item(DigitClass, 8, 8),
                      [Item(dot, 2, 7) EXCEPT !.lazy = TRUE],
                      Item(DigitClass, 3, 5)>>
             cleaned == SelectSeq(ApplyFixes(thaiToEnglish, id, 1),
                                  LAMBDA c : c \notin ThaiClass)
             bqr     == MatchItems(bqrPattern, 1, cleaned, 1, TRUE)
             match   == MatchItems(splitPattern, 1, cleaned, 1, TRUE)
         IN IF bqr # <<>>
            THEN Group(cleaned, bqr, 1, 5) \o <<"B", "Q", "R", "0">> \o Group(cleaned, bqr, 11, 11)
            ELSE IF match = <<>> THEN cleaned
            ELSE LET prefix == Group(cleaned, match, 1, 5)
                     middle == Group(cleaned, match, 6, 6)
                     suffix == Group(cleaned, match, 7, 7)
                 IN IF middle \in { <<"8", "Q", "R", "8">>, <<"8", "Q", "R", "0">> }
                    THEN prefix \o <<"B", "Q", "R", "0">> \o suffix
                    ELSE IF /\ AllDigits(middle) /\ Len(middle) <= 4
                            /\ DigitMiddle(middle) # <<>>
                    THEN prefix \o DigitMiddle(middle) \o suffix
                    ELSE IF /\ \E i \in 1..Len(middle) :
                                  \E j \in 1..Len(UpperLetters) : UpperLetters[j] = middle[i]
                            /\ Len(middle) >= 3 /\ Len(middle) <= 4
                    THEN prefix \o MixedMiddle(middle) \o suffix
                    ELSE cleaned

---------------------------------------------------------------------------
(* OCRService.extractTransactionId                                         *)

\* the label in front of the transaction number on a slip, in Thai
ThaiLabel == <<"SARA_E", "LO_LING", "KHO_KHAI", "THO_THAHAN", "SARA_II", "MAI_EK",
               "RO_RUA", "SARA_AA", "YO_YAK", "KO_KAI", "SARA_AA", "RO_RUA">>

ReferenceLabel == <<"r", "e", "f", "e", "r", "e", "n", "c", "e">>

\* const patterns = [...], all under the flags g and i. from and to are the
\* items whose text is the candidate: the capture group of the two label
\* patterns, the whole match of the others.
patterns ==
    LET SeparatorClass == {"/", " ", "\t", "\n"}
        head    == Literal(KBANK_PREFIX, TRUE) \o <<Item(DigitClass, 8, 8)>>
        capture == <<Item({":", " ", "\t", "\n"}, 0, Unbounded),
                     Item(DigitClass \cup LetterClass \cup SeparatorClass, 1, Unbounded)>>
    IN << [items |-> head \o <<Item(LetterClass, 2, 4), Item(DigitClass, 3, 5)>>,
           from |-> 1, to |-> 7],
          [items |-> head \o <<Item(SeparatorClass, 0, 1), Item(LetterClass, 2, 4),
                               Item(SeparatorClass, 0, 1), Item(DigitClass, 3, 5)>>,
           from |-> 1, to |-> 9],
          [items |-> Literal(ThaiLabel, TRUE) \o capture, from |-> 14, to |-> 14],
          [items |-> Literal(ReferenceLabel, TRUE) \o capture, from |-> 11, to |-> 11],
          [items |-> head \o <<Item(LetterClass \cup DigitClass, 3, 7), Item(DigitClass, 3, 5)>>,
           from |-> 1, to |-> 7] >>

\* s with every match of the pattern removed
RECURSIVE RemoveAll(_, _)
RemoveAll(items, s) ==
    LET m == Search(items, s, 1) IN
    IF m = <<>> THEN s
    ELSE SubSeq(s, 1, m[1] - 1) \o RemoveAll(items, SubSeq(s, m[Len(m)], Len(s)))

\* .replace(/[^0-9A-Z]/gi, '')
KeepAlnum(s) == SelectSeq(s, LAMBDA c : c \in DigitClass \cup LetterClass)

\* the clean-up of one match: labels and colons removed, trimmed, normalised
\* again, everything but letters and digits removed, upper case
CleanCandidate(text) ==
    LET unlabelled == RemoveAll(Literal(ReferenceLabel, TRUE), ReplaceAll(text, ThaiLabel, <<>>))
        trimmed    == Trim(SelectSeq(unlabelled, LAMBDA c : c \notin {":", "FULLWIDTH_COLON"}))
    IN ToUpperCase(KeepAlnum(cleanOCRText(trimmed)))

\* the candidates of the main loop, in the order the loop meets them: pattern
\* by pattern from the k-th on, match by match
RECURSIVE Candidates(_, _)
Candidates(cleanedText, k) ==
    IF k > Len(patterns) THEN <<>>
    ELSE LET matches == MatchAll(patterns[k].items, cleanedText, 1) IN
         [i \in 1..Len(matches) |->
             CleanCandidate(Group(cleanedText, matches[i], patterns[k].from, patterns[k].to))]
         \o Candidates(cleanedText, k + 1)

\* a variant of the prefix test that lets every candidate through
LooksValid_AnyPrefix(id) == TRUE

\* if (transactionId.startsWith('0152'))
LooksValid(id) == StartsWith(id, KBANK_PREFIX)

\* Score based on length (20-21 is perfect)
Score(length) ==
    IF length >= 20 /\ length <= 21 THEN 100
    ELSE IF length >= 18 /\ length <= 23
    THEN 50 + (20 - (IF length < 20 THEN 20 - length ELSE length - 20)) * 5
    ELSE 0

\* bestMatch and bestScore after the candidates from the k-th on
RECURSIVE SelectBest(_, _, _)
SelectBest(candidates, k, best) ==
    IF k > Len(candidates) THEN best
    ELSE SelectBest(candidates, k + 1,
            IF LooksValid(candidates[k]) /\ Score(Len(candidates[k])) > best.score
            THEN [match |-> Text(candidates[k]), score |-> Score(Len(candidates[k]))]
            ELSE best)

\* the direct extraction from the original text: the patterns 1, 2 and 5
\* without the g flag, from the k-th on; NoText when none gives an identifier
RECURSIVE DirectExtraction(_, _)
DirectExtraction(text, k) ==
    LET directPatterns == <<patterns[1], patterns[2], patterns[5]>> IN
    IF k > Len(directPatterns) THEN NoText
    ELSE LET directMatch == Search(directPatterns[k].items, text, 1)
             cleaned == IF directMatch = <<>> THEN <<>>
                        ELSE KeepAlnum(cleanOCRText(ToUpperCase(
                                 Group(text, directMatch, 1, Len(directMatch) - 1))))
             hasLetters ==
                 Search(Literal(KBANK_PREFIX, FALSE)
                          \o <<Item(DigitClass, 8, 8),
                               Item({ UpperLetters[i] : i \in 1..Len(UpperLetters) }, 2, 4),
                               Item(DigitClass, 3, 5)>>,
                        cleaned, 1) # <<>>
         IN IF /\ directMatch # <<>>
               /\ Len(cleaned) >= 19 /\ Len(cleaned) <= 22
               /\ StartsWith(cleaned, KBANK_PREFIX)
               /\ (hasLetters \/ Len(cleaned) = 20 \/ Len(cleaned) = 21)
            THEN Text(cleaned)
            ELSE DirectExtraction(text, k + 1)

\* the reconstruction from segments; NoText when it gives no identifier
SegmentExtraction(cleanedText) ==
    LET separator == {"/", " ", "\t", "\n"}
        \* /0152\d{8}[\/\s]*([A-Z]{2,4})[\/\s]*\d{3,5}/i
        segmentPattern ==
            Literal(KBANK_PREFIX, TRUE)
            \o <<Item(DigitClass, 8, 8), Item(separator, 0, Unbounded),
                 Item(LetterClass, 2, 4), Item(separator, 0, Unbounded),
                 Item(DigitClass, 3, 5)>>
        segmentMatch == Search(segmentPattern, cleanedText, 1)
        reconstructed ==
            IF segmentMatch = <<>> THEN <<>>
            ELSE ToUpperCase(KeepAlnum(
                     Group(cleanedText, segmentMatch, 1, Len(segmentMatch) - 1)))
    IN IF Len(reconstructed) >= 19 /\ Len(reconstructed) <= 22
       THEN Text(reconstructed) ELSE NoText

\* the all-digits extraction; NoText when there is no such number
DigitsExtraction(cleanedText) ==
    \* /0152\d{12,18}/
    LET allDigitsPattern == Literal(KBANK_PREFIX, FALSE) \o <<Item(DigitClass, 12, 18)>>
        allDigitsMatch   == Search(allDigitsPattern, cleanedText, 1) IN
    IF allDigitsMatch = <<>> THEN NoText
    ELSE Text(Group(cleanedText, allDigitsMatch, 1, Len(allDigitsMatch) - 1))

\* extractTransactionId with what it computes on the way: the cleaned text,
\* the candidates of the main loop, bestMatch and bestScore after the loop,
\* the tier that supplied bestMatch, and the value returned
extractTransactionId(text) ==
    IF Falsy(text)
    THEN [cleanedText |-> <<>>, candidates |-> <<>>, bestMatch |-> NoText,
          bestScore |-> 0, tier |-> "none", result |-> NoText]
    ELSE LET cleanedText == cleanOCRText(text.chars)
             candidates  == Candidates(cleanedText, 1)
             best        == SelectBest(candidates, 1, [match |-> NoText, score |-> 0])
             direct      == DirectExtraction(text.chars, 1)
             segment     == SegmentExtraction(cleanedText)
             digits      == DigitsExtraction(cleanedText)
             tier        == IF ~Falsy(best.match) THEN "patterns"
                            ELSE IF ~Falsy(direct) THEN "direct"
                            ELSE IF ~Falsy(segment) THEN "segments"
                            ELSE IF ~Falsy(digits) THEN "digits"
                            ELSE "none"
             bestMatch   == CASE tier = "patterns" -> best.match
                              [] tier = "direct"   -> direct
                              [] tier = "segments" -> segment
                              [] tier = "digits"   -> digits
                              [] OTHER             -> NoText
         IN [cleanedText |-> cleanedText,
             candidates  |-> candidates,
             bestMatch   |-> bestMatch,
             bestScore   |-> best.score,
             tier        |-> tier,
             result      |-> IF Falsy(bestMatch) THEN NoText
                             ELSE Text(fixTransactionIdOCRErrors(bestMatch.chars))]

---------------------------------------------------------------------------
(* The extractor on its own: extractTransactionId on one OCR text.         *)

\* What the OCR may read where the transaction number is printed: the
\* number itself, in upper or lower case, cut short, run into the digits
\* that follow, with separators, with a foreign prefix, with its type code
\* misread as digits or as Thai letters, or nothing like it.
\* In front of it stands nothing, a label with a colon, or a word.
OcrTexts ==
    LET Fragments ==
            LET head == <<"0", "1", "5", "2", "9", "8", "1", "7", "0", "8", "1", "9">>
            IN { Id_QR,
                 head \o <<"b", "q", "r", "0", "2", "6", "5", "1">>,
                 head \o <<"B", "Q", "R", "0", "2", "6", "5">>,
                 head \o <<"B", "Q", "R", "0", "2", "6">>,
                 head \o <<"B", "Q", "R", "0", "2">>,
                 head \o <<"B", "Q", "R", "0", "2", "6", "5", "1", "9", "9">>,
                 head \o <<"B", "Q", "R", "0", "2", "6", "5", "1", "9", "9", "7">>,
                 head \o <<"/", "B", "Q", "R", "/", "0", "2", "6", "5", "1">>,
                 head \o <<" ", " ", "B", "Q", "R", " ", " ", "0", "2", "6", "5", "1">>,
                 head \o <<"8", "Q", "R", "8", "0", "2", "6", "5", "1">>,
                 head \o <<"8", "DO_DEK", "SARA_UU", "8", "0", "2", "6", "5", "1">>,
                 head \o <<"0", "2", "6", "5">>,
                 <<"0", "1", "5", "2", "9", "7", "1", "3", "1", "9", "3", "2",
                   "8", "1", "6", "0", "5", "8", "1", "2">>,
                 <<"0", "1", "5", "3">> \o SubSeq(Id_QR, 5, 20),
                 <<"THAI_ZERO", "THAI_ONE", "THAI_FIVE", "THAI_TWO">> \o SubSeq(Id_QR, 5, 20),
                 <<"1", "7", ":", "0", "8">> }
        Labels ==
            { <<>>,
              <<"R", "e", "f", "e", "r", "e", "n", "c", "e", ":", " ">>,
              ThaiLabel \o <<":", " ">>,
              <<"N", "o", ".", " ">> }
    IN { Text(l \o f) : l \in Labels, f \in Fragments }
       \cup { Text(l \o f \o <<"\n">> \o g) : l \in Labels, f \in Fragments, g \in Fragments }
       \cup { NoText, Text(<<>>) }

OcrInit ==
    /\ ocrText \in OcrTexts
    /\ pc = "extract"
    /\ extraction = NULL
    /\ transactionId = NULL
    /\ currentYear = 2470 + 97
    /\ ocrDateTime = NULL
    /\ verification = NULL
    /\ slipData = NULL
    /\ expectedData = NULL
    /\ result = NULL
    /\ parsed = NULL
    /\ validation = NULL
    /\ riskLevel = "LOW"
    /\ suspiciousReasons = <<>>
    /\ detection = NULL
    /\ quick = NULL
    /\ combined = NULL
    /\ Constructed

ExtractTransactionId ==
    /\ pc = "extract"
    /\ extraction' = extractTransactionId(ocrText)
    /\ pc' = "extracted"
    /\ UNCHANGED <<transactionId, currentYear, ocrText>>
    /\ UNCHANGED <<parserVars, slipVars, workerVars>>

OCRSpec == OcrInit /\ [][ExtractTransactionId]_vars


\* the candidates of the main loop that pass the prefix test
Prefixed ==
    { i \in 1..Len(extraction.candidates) :
        StartsWith(extraction.candidates[i], KBANK_PREFIX) }

\* the text, normalised and reduced to letters and digits, has 0152 nowhere
PrefixNowhere ==
    \/ Falsy(ocrText)
    \/ ~Includes(ToUpperCase(KeepAlnum(cleanOCRText(ocrText.chars))), KBANK_PREFIX)

\* C19: the prefix is a hard disqualifier for extraction: the result is null
\* whenever no pattern and no fallback tier finds a candidate that starts
\* with 0152 (in particular when 0152 occurs nowhere in the normalised
\* text), and every result that is not null starts with 0152.
C19_PrefixDisqualifies ==
    pc = "extracted" =>
        /\ ~Falsy(extraction.result) => StartsWith(extraction.result.chars, KBANK_PREFIX)
        /\ PrefixNowhere => Falsy(extraction.result)
        /\ ( /\ Prefixed = {}
             /\ Falsy(DirectExtraction(ocrText.chars, 1))
             /\ Falsy(SegmentExtraction(extraction.cleanedText))
             /\ Falsy(DigitsExtraction(extraction.cleanedText)) )
           => Falsy(extraction.result)

\* a labelled number of the right length and a foreign prefix: a candidate
\* of the main loop, and no result
C19_Witness ==
    /\ pc = "extracted"
    /\ \E i \in 1..Len(extraction.candidates) :
           /\ i \notin Prefixed
           /\ Len(extraction.candidates[i]) = 20
    /\ PrefixNowhere
    /\ Falsy(extraction.result)

C19_WitnessFound ==
    /\ pc = "extracted"
    /\ extraction.tier = "segments"
    /\ extraction.result = Text(Id_QR)

\* C20: a candidate of exact length 20 or 21 scores strictly higher than a
\* candidate of any other length, so when the text yields an exact-length
\* candidate and one of length 18, 19, 22 or 23, the exact-length one is
\* selected.
C20_ExactLengthWins ==
    pc = "extracted" =>
        LET exact == { i \in Prefixed : Len(extraction.candidates[i]) \in {20, 21} }
            near  == { i \in Prefixed : Len(extraction.candidates[i]) \in {18, 19, 22, 23} }
        IN (exact # {} /\ near # {}) =>
              /\ Len(extraction.bestMatch.chars) \in {20, 21}
              /\ extraction.bestScore = Score(20)
              /\ \A i \in near : Score(Len(extraction.candidates[i])) < Score(20)

---------------------------------------------------------------------------
(* The text repairs on their own: cleanOCRText on one text, and            *)
(* fixTransactionIdOCRErrors on one candidate.                             *)

\* the triggers of a replacement table
Triggers(fixes) == { fixes[k][1] : k \in 1..Len(fixes) }

\* Texts for cleanOCRText: two parts side by side, each nothing, one
\* character of the table's alphabet (a Thai letter, sign or numeral, the
\* slash, a capital, a digit) or a trigger of the table.
\* Candidates for fixTransactionIdOCRErrors: twelve leading characters, a
\* type region as printed or as misread, and the digits of a sequence
\* number; and the triggers of the Thai-to-English table inside a candidate.
TextInit ==
    LET chars == ThaiClass \cup {"/", "A", "Q", "8", "0"}
        parts == {<<>>} \cup { <<c>> : c \in chars } \cup Triggers(ocrFixes)
        heads == { SubSeq(Id_QR, 1, 12),
                   <<"0", "1", "5", "2", "9", "7", "1", "3", "1", "9", "3", "2">>,
                   <<"0", "1", "5", "3", "9", "8", "1", "7", "0", "8", "1", "9">> }
        regions ==
            { <<"B", "Q", "R", "0">>, <<"A", "T", "F", "0">>, <<"X", "X", "X", "X">>,
              <<"B", "Q", "R">>, <<"A", "B">>,
              <<"8", "Q", "R", "8">>, <<"8", "Q", "R", "0">>, <<"8", "Q", "R", "8", "0">>,
              <<"8", "Q", "R">>, <<"8", "X", "Y", "8">>, <<"8", "P", "M", "0">>,
              <<"8", "DO_DEK", "SARA_UU", "8">>, <<"8", "DO_DEK", "SARA_UU", "8", "0">>,
              <<"8", "KHO_KHWAI", "SARA_I", "WO_WAEN", "O_ANG", "SARA_AA", "RO_RUA",
                "THANTHAKHAT", "8">>,
              <<"B", "Q", "R", "0", "KO_KAI">>,
              <<"8", "1", "6">>, <<"8", "1", "6", "0">>, <<"8", "0", "8", "0">>,
              <<"8", "0", "0", "8">>, <<"8", "1", "1", "8">>, <<"4", "7", "6">>,
              <<"1", "2", "3", "0">>, <<"1", "2", "3">> }
            \cup { <<"8">> \o t \o <<"8">> : t \in Triggers(thaiToEnglish) }
        sequences ==
            { <<"2", "6", "5">>, <<"2", "6", "5", "1">>, <<"0", "2", "6", "5", "1">>,
              <<"0", "5", "8", "1", "2">>, <<"1", "2", "3", "4", "5">>,
              <<"5", "8", "1", "2", "3", "4">> }
    IN /\ \/ /\ pc = "clean"
             /\ ocrText \in { Text(a \o b) : a \in parts, b \in parts }
          \/ /\ pc = "fix"
             /\ ocrText \in { Text(h \o r \o q) : h \in heads, r \in regions,
                                                 q \in sequences }
       /\ extraction = NULL
       /\ transactionId = NULL
       /\ currentYear = 2470 + 97
       /\ ocrDateTime = NULL
       /\ verification = NULL
       /\ slipData = NULL
       /\ expectedData = NULL
       /\ result = NULL
       /\ parsed = NULL
       /\ validation = NULL
       /\ riskLevel = "LOW"
       /\ suspiciousReasons = <<>>
       /\ detection = NULL
       /\ quick = NULL
       /\ combined = NULL
       /\ Constructed

CleanOCRText ==
    /\ pc = "clean"
    /\ extraction' = Text(cleanOCRText(ocrText.chars))
    /\ pc' = "cleaned"
    /\ UNCHANGED <<transactionId, currentYear, ocrText>>
    /\ UNCHANGED <<parserVars, slipVars, workerVars>>

FixTransactionIdOCRErrors ==
    /\ pc = "fix"
    /\ extraction' = Text(fixTransactionIdOCRErrors(ocrText.chars))
    /\ pc' = "fixed"
    /\ UNCHANGED <<transactionId, currentYear, ocrText>>
    /\ UNCHANGED <<parserVars, slipVars, workerVars>>

TextSpec == TextInit /\ [][CleanOCRText \/ FixTransactionIdOCRErrors]_vars

\* C23: cleanOCRText is idempotent: cleaning a cleaned text again changes
\* nothing.
C23_CleanIdempotent ==
    pc = "cleaned" => cleanOCRText(extraction.chars) = extraction.chars

\* a text with the same trigger twice, both replaced by the one pass
C23_Witness ==
    /\ pc = "cleaned"
    /\ \E t \in Triggers(ocrFixes) : ocrText.chars = t \o t
    /\ extraction.chars # ocrText.chars
    /\ \A i \in 1..Len(extraction.chars) : extraction.chars[i] \notin ThaiClass

\* the k-th trigger of a table is part of a longer trigger further down
Preempts(fixes, k) ==
    \E j \in (k + 1)..Len(fixes) :
        /\ Len(fixes[j][1]) > Len(fixes[k][1])
        /\ Includes(fixes[j][1], fixes[k][1])

\* C24: the replacement tables are applied longest trigger first: no trigger
\* comes before a longer trigger that contains it, so cleanOCRText turns
\* every trigger of its table into that trigger's replacement, and the
\* Thai-to-English table of fixTransactionIdOCRErrors does the same.
C24_LongestTriggerFirst ==
    /\ pc = "cleaned" =>
          /\ \A k \in 1..Len(ocrFixes) :
                 /\ ~Preempts(ocrFixes, k)
                 /\ ocrText.chars = ocrFixes[k][1] => extraction.chars = ocrFixes[k][2]
    /\ pc = "fixed" =>
          /\ \A k \in 1..Len(thaiToEnglish) :
                 /\ ~Preempts(thaiToEnglish, k)
                 /\ ApplyFixes(thaiToEnglish, thaiToEnglish[k][1], 1) = thaiToEnglish[k][2]

\* the candidate made of twelve leading characters, a type region and a sequence
Candidate(head, region, sequence) == Text(head \o region \o sequence)

\* C27: a 20-character candidate whose type code was read entirely as
\* digits gets the known type code back in place, with its length and its
\* sequence digits kept: 01529713193281605812 becomes 015297131932ATF05812,
\* and 01529817081980802651 and 01529817081980082651 both become
\* 015298170819BQR02651.
C27_DigitTypeCodeRestored ==
    pc = "fixed" =>
        LET atf == <<"0", "1", "5", "2", "9", "7", "1", "3", "1", "9", "3", "2">>
            bqr == SubSeq(Id_QR, 1, 12)
        IN /\ ocrText = Candidate(atf, <<"8", "1", "6">>, <<"0", "5", "8", "1", "2">>)
                => extraction = Candidate(atf, <<"A", "T", "F">>, <<"0", "5", "8", "1", "2">>)
           /\ ocrText = Candidate(bqr, <<"8", "0", "8", "0">>, <<"2", "6", "5", "1">>)
                => extraction = Text(Id_QR)
           /\ ocrText = Candidate(bqr, <<"8", "0", "0", "8">>, <<"2", "6", "5", "1">>)
                => extraction = Text(Id_QR)

\* the candidate starts with 0152 and eight digits
HasPrefix(id) ==
    /\ Len(id) >= 12
    /\ SubSeq(id, 1, 4) = KBANK_PREFIX
    /\ \A i \in 5..12 : id[i] \in DigitClass

\* no repair rule can fire on the candidate: it holds no Thai character, the
\* region after its twelve leading characters does not start with the digit
\* 8 and is not made of digits only
NoRuleFires(id) ==
    /\ HasPrefix(id)
    /\ \A i \in 1..Len(id) : id[i] \notin ThaiClass
    /\ Len(id) > 12 /\ id[13] # "8"
    /\ \E i \in 13..Len(id) : id[i] \notin DigitClass

C26_WitnessShort ==
    /\ pc = "fixed"
    /\ ocrText = Candidate(SubSeq(Id_QR, 1, 12), <<"8", "Q", "R", "8">>, <<"2", "6", "5">>)
    /\ extraction = ocrText

---------------------------------------------------------------------------
(* Extraction of an identifier that stands in the text.                    *)

\* the places of the text where part starts
Occurrences(text, part) ==
    { i \in 1..(Len(text) - Len(part) + 1) : SubSeq(text, i, i + Len(part) - 1) = part }

\* the text holds the identifier as printed, with no letter or digit right
\* before or after it, and has the bank prefix nowhere else
StandsAlone(text, id) ==
    /\ \E i \in Occurrences(text, id) :
          /\ i = 1 \/ UpperChar(text[i - 1]) \notin DigitClass \cup LetterClass
          /\ i + Len(id) > Len(text)
             \/ UpperChar(text[i + Len(id)]) \notin DigitClass \cup LetterClass
    /\ Cardinality(Occurrences(text, KBANK_PREFIX)) = 1

\* C21: round trip: from every text that contains a canonical identifier
\* verbatim (0152, eight digits, a type code of four letters or digits, a
\* sequence number; 20 or 21 characters) extractTransactionId returns that
\* identifier, unchanged by the selection of a candidate and by
\* fixTransactionIdOCRErrors.
C21_RoundTrip ==
    (pc = "extracted" /\ ~Falsy(ocrText) /\ StandsAlone(ocrText.chars, Id_QR))
        => extraction.result = Text(Id_QR)

\* the identifier of the scenario as the OCR misreads it: BQR0 read as 8QR80
\* in the normalised text, and with the Thai pair for QR in the raw text
Misread    == SubSeq(Id_QR, 1, 12) \o <<"8", "Q", "R", "8", "0", "2", "6", "5", "1">>
MisreadRaw == SubSeq(Id_QR, 1, 12) \o <<"8", "DO_DEK", "SARA_UU", "8", "0", "2", "6", "5", "1">>

\* C22: noisy OCR repair: a text that contains the misread fragment
\* 0152981708198QR802651, or its raw form with the Thai pair in place of QR,
\* is extracted as 015298170819BQR02651.
C22_NoisyRepair ==
    ( /\ pc = "extracted" /\ ~Falsy(ocrText)
      /\ \/ StandsAlone(ocrText.chars, Misread)
         \/ StandsAlone(ocrText.chars, MisreadRaw) )
        => extraction.result = Text(Id_QR)

---------------------------------------------------------------------------
(* The shared OCRService instance under concurrent calls: every await of   *)
(* initialize, extractText and terminate is a point where another call     *)
(* may run.                                                                *)

\* the call c, moved to a position
At(c, position) == [calls EXCEPT ![c].pc = position]

\* extractText up to its first await. While isInitialized is false it enters
\* initialize, which passes its guard and invokes Tesseract.createWorker;
\* otherwise it goes on to preprocessImage.
ExtractText(c) ==
    /\ calls[c].pc = "idle"
    /\ IF ~isInitialized
       THEN /\ workers' = Append(workers, "starting")
            /\ calls' = [calls EXCEPT ![c] = [pc |-> "createWorker",
                                              created |-> Len(workers) + 1]]
       ELSE /\ calls' = At(c, "preprocess")
            /\ UNCHANGED workers
    /\ UNCHANGED <<worker, isInitialized, terminator>>
    /\ UNCHANGED callerVars

\* createWorker resolves: this.worker = the new worker, and setParameters is
\* called on it
CreateWorkerResolved(c) ==
    /\ calls[c].pc = "createWorker"
    /\ worker' = calls[c].created
    /\ workers' = [workers EXCEPT ![calls[c].created] = "ready"]
    /\ calls' = At(c, "setParameters")
    /\ UNCHANGED <<isInitialized, terminator>>
    /\ UNCHANGED callerVars

\* setParameters resolves: this.isInitialized = true; initialize returns and
\* extractText goes on to preprocessImage
SetParametersResolved(c) ==
    /\ calls[c].pc = "setParameters"
    /\ isInitialized' = TRUE
    /\ calls' = At(c, "preprocess")
    /\ UNCHANGED <<worker, workers, terminator>>
    /\ UNCHANGED callerVars

\* createWorker or setParameters rejects: initialize logs and rethrows, and
\* extractText rejects with it. A worker that was not created is no worker.
InitializeRejected(c) ==
    /\ calls[c].pc \in {"createWorker", "setParameters"}
    /\ workers' = IF calls[c].pc = "createWorker"
                  THEN [workers EXCEPT ![calls[c].created] = "failed"]
                  ELSE workers
    /\ calls' = At(c, "failed")
    /\ UNCHANGED <<worker, isInitialized, terminator>>
    /\ UNCHANGED callerVars

\* preprocessImage resolves (with the processed image, or with the original
\* when sharp fails) and this.worker.recognize is called
PreprocessResolved(c) ==
    /\ calls[c].pc = "preprocess"
    /\ calls' = At(c, "recognize")
    /\ UNCHANGED <<worker, isInitialized, workers, terminator>>
    /\ UNCHANGED callerVars

\* recognize resolves and extractText returns the text, or it rejects and
\* extractText throws 'Failed to extract text from image'
RecognizeResolved(c) ==
    /\ calls[c].pc = "recognize"
    /\ \E outcome \in {"done", "failed"} : calls' = At(c, outcome)
    /\ UNCHANGED <<worker, isInitialized, workers, terminator>>
    /\ UNCHANGED callerVars

\* terminate up to its await: with a worker in this.worker it calls
\* worker.terminate(); without one it returns at once
Terminate ==
    /\ terminator.pc = "idle"
    /\ terminator' = IF worker # NoWorker
                     THEN [pc |-> "terminating", worker |-> worker]
                     ELSE terminator
    /\ UNCHANGED <<worker, isInitialized, workers, calls>>
    /\ UNCHANGED callerVars

\* worker.terminate() resolves: this.isInitialized = false; this.worker keeps
\* the terminated worker
TerminateResolved ==
    /\ terminator.pc = "terminating"
    /\ workers' = [workers EXCEPT ![terminator.worker] = "terminated"]
    /\ isInitialized' = FALSE
    /\ terminator' = [pc |-> "idle", worker |-> NoWorker]
    /\ UNCHANGED <<worker, calls>>
    /\ UNCHANGED callerVars

\* module.exports = new OCRService(): one instance, nothing called yet
WorkerInit ==
    /\ Constructed
    /\ pc = "ocr"
    /\ transactionId = NULL
    /\ currentYear = 2470 + 97
    /\ ocrText = NULL
    /\ extraction = NULL
    /\ ocrDateTime = NULL
    /\ verification = NULL
    /\ slipData = NULL
    /\ expectedData = NULL
    /\ result = NULL
    /\ parsed = NULL
    /\ validation = NULL
    /\ riskLevel = "LOW"
    /\ suspiciousReasons = <<>>
    /\ detection = NULL
    /\ quick = NULL
    /\ combined = NULL

WorkerNext ==
    \/ \E c \in Calls : ExtractText(c)
    \/ \E c \in Calls : CreateWorkerResolved(c)
    \/ \E c \in Calls : SetParametersResolved(c)
    \/ \E c \in Calls : InitializeRejected(c)
    \/ \E c \in Calls : PreprocessResolved(c)
    \/ \E c \in Calls : RecognizeResolved(c)
    \/ Terminate
    \/ TerminateResolved

WorkerSpec == WorkerInit /\ [][WorkerNext]_vars

\* the workers that exist: created, and neither failed nor terminated
Live == { w \in 1..Len(workers) : workers[w] \in {"starting", "ready"} }

\* C28: at most one OCR worker is ever created and in use: under any
\* interleaving of concurrent extractText calls on the shared instance,
\* Tesseract.createWorker is invoked at most once before terminate, and no
\* created worker is overwritten and left unterminated.
C28_SingleWorker ==
    /\ Cardinality(Live) <= 1
    /\ \A w \in Live : workers[w] = "ready" => worker = w

====
